---------------------------- MODULE Spec2Model ----------------------------
(***************************************************************************)
(* The conversational session orchestrator of map-bot: the WebSocket chat  *)
(* handler of the backend (src/unnamed/part_000), which drives a           *)
(* tool-calling agent for one user turn, listens to it on two channels     *)
(* (the callbacks object and the streamEvents feed) and turns what it      *)
(* hears into the outbound events thinking / stream / map_action /         *)
(* stream_end / error.                                                     *)
(*                                                                         *)
(* Text is a sequence of one-character strings, so that String.includes,   *)
(* += and trim() are computed rather than assumed.  A JavaScript value is  *)
(* a record [k, v]: k is its kind and v its text when it is a string.      *)
(*                                                                         *)
(* The agent library is not part of the repository.  It is modelled as an  *)
(* environment that produces text fragments and tool calls and reports     *)
(* each of them on the callback channel, on the event channel, or on both, *)
(* in any interleaving, each channel in production order.  The variables   *)
(* frags, tokPos, calls and toolPos hold what the agent has produced and   *)
(* how far each channel has reported it.  out records every wsSend call of *)
(* the current turns together with whether the socket was open.            *)
(***************************************************************************)
EXTENDS Integers, Sequences, FiniteSets, TLC

VARIABLES
    wsState,        \* ws.readyState of the connection: "NONE", "OPEN", "CLOSED"
    sessions,       \* keys present in the sessions Map
    chatHistory,    \* session.chatHistory of the connection's session object
    allAppended,    \* history variable: every entry ever pushed to chatHistory
    out,            \* history variable: the wsSend calls, tagged by turn slot
    turnsStarted,   \* number of chat messages received on the connection
    turnsFailed,    \* history variable: turns that ended in the catch block
    pc,             \* per turn slot: where the message handler is
    userMessage,    \* per turn slot: message.content
    fullResponse,   \* per turn slot: the closure variable fullResponse
    mapAction,      \* per turn slot: the closure variable mapAction
    toolsUsed,      \* per turn slot: the closure variable toolsUsed
    streamStarted,  \* per turn slot: the closure variable streamStarted
    frags,          \* per turn slot: fragments the model has produced so far
    tokPos,         \* per turn slot: fragments reported on each channel
    calls,          \* per turn slot: tool calls the agent has made so far
    toolPos,        \* per turn slot: tool notices reported on each channel
    finalOutput,    \* per turn slot: the output the root run of the agent ended with
    agentTools,     \* per turn slot: the tools the agent of the turn was built with
    proc,           \* the server process: where start() is
    mcpTools,       \* the module variable mcpTools
    listCalls,      \* history variable: mcpClient.listTools() calls so far
    mcpClient,      \* the module variable mcpClient: NULL or the Client object
    mcpLink,        \* the connection of the Client to the tool server
    now,            \* SpecStore: Date.now(), in milliseconds since the server started
    conns,          \* SpecStore: per connection, its readyState and its sessionId
    store,          \* SpecStore: the sessions Map, key -> the session object stored
    hist,           \* SpecStore: chatHistory of the session object each connection made
    held,           \* SpecStore: the session object the turn of a connection fetched
    phase,          \* SpecStore: per connection, where its message handler is
    arg,            \* function specifications: the input of the call under study
    res,            \* function specifications: what the call returned
    dropped,        \* inbound payloads of the connection that started no turn
    socket,         \* client: readyState of the WebSocket App.jsx opened
    messages,       \* client: the React state messages
    thinkingStatus, \* client: the React state thinkingStatus
    streamingRef,   \* client: streamingRef.current
    streamingContent, \* client: the React state streamingContent
    mapState,       \* client: the React state mapState
    clientLog       \* history variable: frames handled and chat messages sent

handlerVars == <<out, fullResponse, mapAction, toolsUsed, streamStarted>>
agentVars == <<frags, tokPos, calls, toolPos, finalOutput, agentTools>>
procVars == <<proc, mcpTools, listCalls, mcpClient, mcpLink>>
\* The state of the browser client; no step of the server writes it.
clientVars == <<socket, messages, thinkingStatus, streamingRef,
                streamingContent, mapState, clientLog>>
storeVars == <<now, conns, store, hist, held, phase, clientVars>>
callVars == <<arg, res>>
connVars == <<wsState, sessions, storeVars, procVars, callVars, dropped>>
runVars == <<wsState, sessions, chatHistory, allAppended, out, turnsStarted,
             turnsFailed, pc,
             userMessage, fullResponse, mapAction, toolsUsed, streamStarted,
             frags, tokPos, calls, toolPos, finalOutput, agentTools, procVars,
             dropped, clientVars>>
turnVars == <<runVars, callVars>>
vars == <<turnVars, storeVars>>

----------------------------------------------------------------------------
\* Bounds of the model and constants of the program.

\* Agent notices (callbacks and events) delivered in one turn under Spec.
MaxEvents == 4

\* Tool notices (callbacks and events) delivered in the turn of SpecSide.
SideEvents == 4

\* Chat messages and, per turn, agent notices under SpecLive.
LiveTurns == 1

LiveEvents == 1

\* Agent notices delivered in one turn under SpecIsolation.
IsolationEvents == 2

\* Inbound payloads that start no turn, and chat messages, under SpecInbound.
MaxDropped == 2

InboundTurns == 2

\* Chat messages per connection under SpecSession.
MaxTurns == 2

\* Agent notices delivered in one turn under SpecSession.
SessionEvents == 1

\* Chat messages per connection under SpecHist.
HistTurns == 12

\* The retention window: "if (session.chatHistory.length > 20)".
HistoryLimit == 20

\* Chat messages per connection under SpecOverlap.
OverlapTurns == 2

\* Agent notices delivered in one turn under SpecOverlap.
OverlapEvents == 1

\* Agent notices delivered in one turn under SpecStartup.
StartupEvents == 2

\* Connections the server accepts under SpecStore.
MaxConns == 2

\* Turns that push to one session object under SpecStore.
MaxStoreTurns == 2

\* Date.now().toString().slice(-6): identifiers repeat every 10^6 ms.
IdPeriod == 1000000

\* Turn slots: a slot holds the closure state of one run of the handler.
Slots == {1, 2}

\* The slot used when the client sends one message at a time.
SerialSlots == {1}

SessionId == "s1"

----------------------------------------------------------------------------
\* JavaScript values.

NULL == "null"

Str(s) == [k |-> "string", v |-> s]

Undefined == [k |-> "undefined", v |-> <<>>]

\* A truthy value that is not a string (a number, an array of content parts).
NonString == [k |-> "object", v |-> <<>>]

IsString(x) == x.k = "string"

\* Boolean(x)
Truthy(x) == IF IsString(x) THEN x.v # <<>> ELSE x.k = "object"

\* String.prototype.includes
Includes(s, t) ==
    \E i \in 0..(Len(s) - Len(t)) : SubSeq(s, i + 1, i + Len(t)) = t

Whitespace == {" "}

\* String.prototype.trim() yields a non-empty string
TrimNonEmpty(s) == \E i \in 1..Len(s) : s[i] \notin Whitespace

\* x?.trim(): throws when x is neither nullish nor a string
TrimThrows(x) == x.k = "object"

\* Boolean(x?.trim()) when it does not throw
TrimTruthy(x) == IsString(x) /\ TrimNonEmpty(x.v)

RECURSIVE Flatten(_)
Flatten(ss) == IF ss = <<>> THEN <<>> ELSE Head(ss) \o Flatten(Tail(ss))


----------------------------------------------------------------------------
\* Outbound events and wsSend.

ThinkingText == "Thinking..."

GeneratingText == "Generating response..."

ErrorText == "Sorry, I encountered an error processing your request. Please try again."

ToolNames == {"search_places", "get_directions"}

\* `Using ${toolName.replace(/_/g, " ")}...`
UsingText(toolName) ==
    CASE toolName = "search_places" -> "Using search places..."
      [] toolName = "get_directions" -> "Using get directions..."
      [] OTHER -> "Using ..."

\* The data object handed to wsSend by turn slot t.
Event(t, type, status, content, ma) ==
    [turn |-> t, type |-> type, status |-> status, content |-> content,
     mapAction |-> ma, sent |-> FALSE]

ThinkingEvent(t, status) == Event(t, "thinking", status, Undefined, NULL)

StreamEvent(t, text) == Event(t, "stream", NULL, Str(text), NULL)

MapActionEvent(t, ma) == Event(t, "map_action", NULL, Undefined, ma)

StreamEndEvent(t, content, ma) == Event(t, "stream_end", NULL, content, ma)

ErrorEvent(t) == Event(t, "error", NULL, Str(<<ErrorText>>), NULL)

GreetingEvent == Event(0, "response", NULL, Str(<<"Hello">>), NULL)

\* Mutant of wsSend: the readyState test is missing.
WsSend_Unguarded(log, data) == Append(log, [data EXCEPT !.sent = TRUE])

\* wsSend(ws, data): ws.send only when ws.readyState === ws.OPEN.  The call is
\* recorded either way; sent tells whether it reached the socket.
WsSend(log, data) == Append(log, [data EXCEPT !.sent = (wsState = "OPEN")])

\* The wsSend calls of turn slot t, in order.
TurnLog(t) == SelectSeq(out, LAMBDA e : e.turn = t)

----------------------------------------------------------------------------
\* Tool results and stream chunks as the handler reads them.

\* Map actions the tool server builds, and one tag it does not know.
MapActions == {"SHOW_MARKERS", "SHOW_ROUTE", "CENTER", "HIGHLIGHT"}

\* A tool output: k = "json" is a JSON object document whose mapAction field
\* is the given value (NULL: absent or null), "jsonnull" the document null,
\* "text" text that is not JSON, "empty" the empty string or undefined,
\* "object" a value that is not a string, "jsonerror" the JSON object document
\* {error, tool, args} of a failed tool call.
ToolOutput(k, ma) == [k |-> k, mapAction |-> ma]

\* JSON.stringify({error: error.message, tool: name, args: args})
ToolErrorBody == ToolOutput("jsonerror", NULL)

\* The names a CallTool request can carry: the six tools and one the server
\* does not know.
ToolCallNames ==
    {"search_places", "get_place_details", "get_directions", "geocode",
     "reverse_geocode", "nearby_search", "unknown_tool"}

\* The tools whose result is a list that may be empty.
ListTools == {"search_places", "nearby_search"}

\* What the map provider answers: usable data, a well-formed answer with
\* nothing in it, an answer of another shape, or no answer (fetch rejects).
ProviderResponses == {"data", "nodata", "invalid", "unreachable"}

\* searchPlaces, getPlaceDetails, getDirections, geocode, reverseGeocode,
\* nearbySearch: a result, an empty list (the list tools only), or an exception.
provider(name, response) ==
    CASE response = "data" -> "result"
      [] response = "nodata" /\ name \in ListTools -> "empty"
      [] OTHER -> "throws"

\* Mutant of CallToolRequest: a name the switch does not know falls through
\* and the handler returns the undefined result.
CallToolRequest_NoDefault(name, response) ==
    CASE name \in ListTools /\ provider(name, response) = "result" ->
            [text |-> ToolOutput("json", "SHOW_MARKERS"), isError |-> FALSE]
      [] name \in ListTools /\ provider(name, response) = "empty" ->
            [text |-> ToolOutput("json", NULL), isError |-> FALSE]
      [] name = "get_directions" /\ provider(name, response) = "result" ->
            [text |-> ToolOutput("json", "SHOW_ROUTE"), isError |-> FALSE]
      [] /\ name \in {"get_place_details", "geocode", "reverse_geocode"}
         /\ provider(name, response) = "result" ->
            [text |-> ToolOutput("json", "SHOW_MARKERS"), isError |-> FALSE]
      [] name = "unknown_tool" ->
            [text |-> ToolOutput("jsonnoresult", NULL), isError |-> FALSE]
      [] OTHER -> [text |-> ToolErrorBody, isError |-> TRUE]

\* The CallTool request handler of the tool server: the text of content[0] and
\* the isError flag of what it returns.  The default branch of the switch and
\* every exception of a provider function end in the catch block.
CallToolRequest(name, response) ==
    CASE name \in ListTools /\ provider(name, response) = "result" ->
            [text |-> ToolOutput("json", "SHOW_MARKERS"), isError |-> FALSE]
      [] name \in ListTools /\ provider(name, response) = "empty" ->
            [text |-> ToolOutput("json", NULL), isError |-> FALSE]
      [] name = "get_directions" /\ provider(name, response) = "result" ->
            [text |-> ToolOutput("json", "SHOW_ROUTE"), isError |-> FALSE]
      [] /\ name \in {"get_place_details", "geocode", "reverse_geocode"}
         /\ provider(name, response) = "result" ->
            [text |-> ToolOutput("json", "SHOW_MARKERS"), isError |-> FALSE]
      [] OTHER -> [text |-> ToolErrorBody, isError |-> TRUE]

\* The fields of JSON.parse(text): "json" is {result, mapAction}, "jsonerror"
\* is {error, tool, args}, "jsonnoresult" is {mapAction} (JSON.stringify drops
\* an undefined result).
HasResult(body) == body.k = "json"

HasError(body) == body.k = "jsonerror"

\* What await mcpClient.callTool(...) gives the tool func: the reply of the
\* handler, a reply whose content list is empty, or a rejection.
Transports == {"delivered", "nocontent", "rejected"}

CallToolResult(transport, reply) ==
    [rejected |-> transport = "rejected",
     content |-> IF transport = "delivered" THEN <<reply>> ELSE <<>>]

\* func of the DynamicStructuredTool: const responseText = result.content[0].text;
\* ...; return responseText
toolFunc(result) == result.text

\* The func as a whole: await mcpClient.callTool(...) and result.content[0].text
\* are outside any try block, so a rejection and an empty content list leave
\* the func as exceptions.
invokeTool(called) ==
    IF called.rejected \/ called.content = <<>>
    THEN [done |-> TRUE, throws |-> TRUE, value |-> ToolOutput("empty", NULL)]
    ELSE [done |-> TRUE, throws |-> FALSE, value |-> toolFunc(called.content[1])]

\* JSON.parse(output)
JSONParse(output) ==
    CASE output.k = "json" ->
            [throws |-> FALSE, isNull |-> FALSE, mapAction |-> output.mapAction]
      [] output.k = "jsonerror" ->
            [throws |-> FALSE, isNull |-> FALSE, mapAction |-> NULL]
      [] output.k = "jsonnull" ->
            [throws |-> FALSE, isNull |-> TRUE, mapAction |-> NULL]
      [] OTHER -> [throws |-> TRUE, isNull |-> FALSE, mapAction |-> NULL]

\* try { const parsed = JSON.parse(output); if (parsed.mapAction) ... } catch {}
\* The value of parsed.mapAction when the if branch is taken, NULL otherwise.
ParsedMapAction(output) ==
    LET parsed == JSONParse(output)
    IN  IF parsed.throws \/ parsed.isNull THEN NULL ELSE parsed.mapAction

\* Boolean(toolOutput)
OutputTruthy(output) == output.k # "empty"

\* The content field of a chunk or of a wrapper object.
NoContent == [k |-> "undefined", s |-> <<>>, parts |-> <<>>]

StringContent(s) == [k |-> "string", s |-> s, parts |-> <<>>]

ArrayContent(parts) == [k |-> "array", s |-> <<>>, parts |-> parts]

StringPart(s) == [k |-> "string", text |-> s, content |-> <<>>]

ObjectPart(text, content) == [k |-> "object", text |-> text, content |-> content]

NoWrapper == [present |-> FALSE, content |-> NoContent]

Wrapper(content) == [present |-> TRUE, content |-> content]

NullChunk ==
    [nullish |-> TRUE, content |-> NoContent, text |-> <<>>, kwargs |-> NoWrapper,
     lc_kwargs |-> NoWrapper, message |-> NoWrapper]

Chunk(content, text, kwargs, lc_kwargs, message) ==
    [nullish |-> FALSE, content |-> content, text |-> text, kwargs |-> kwargs,
     lc_kwargs |-> lc_kwargs, message |-> message]

\* part => typeof part === 'string' ? part : (part?.text || part?.content || '')
PartText(part) ==
    CASE part.k = "string" -> part.text
      [] part.k = "object" -> IF part.text # <<>> THEN part.text ELSE part.content
      [] OTHER -> <<>>

\* parts.map(PartText).join('')
JoinParts(parts) == Flatten([i \in 1..Len(parts) |-> PartText(parts[i])])

\* Boolean(w?.content)
ContentTruthy(w) ==
    /\ w.present
    /\ \/ w.content.k = "string" /\ w.content.s # <<>>
       \/ w.content.k \in {"array", "object"}

\* Mutant of extractTextFromChunk: chunk.text is probed after the wrappers.
extractTextFromChunk_TextLast(chunk) ==
    IF chunk.nullish THEN <<>>
    ELSE IF chunk.content.k = "string" /\ chunk.content.s # <<>>
        THEN chunk.content.s
    ELSE IF /\ chunk.content.k = "array"
            /\ Len(chunk.content.parts) > 0
            /\ JoinParts(chunk.content.parts) # <<>>
        THEN JoinParts(chunk.content.parts)
    ELSE IF ContentTruthy(chunk.kwargs) /\ chunk.kwargs.content.k = "string"
        THEN chunk.kwargs.content.s
    ELSE IF /\ ContentTruthy(chunk.kwargs)
            /\ chunk.kwargs.content.k = "array"
            /\ Len(chunk.kwargs.content.parts) > 0
        THEN JoinParts(chunk.kwargs.content.parts)
    ELSE IF ContentTruthy(chunk.lc_kwargs) /\ chunk.lc_kwargs.content.k = "string"
        THEN chunk.lc_kwargs.content.s
    ELSE IF ContentTruthy(chunk.message) /\ chunk.message.content.k = "string"
        THEN chunk.message.content.s
    ELSE IF chunk.text # <<>> THEN chunk.text
    ELSE <<>>

extractTextFromChunk(chunk) ==
    IF chunk.nullish THEN <<>>
    ELSE IF chunk.content.k = "string" /\ chunk.content.s # <<>>
        THEN chunk.content.s
    ELSE IF /\ chunk.content.k = "array"
            /\ Len(chunk.content.parts) > 0
            /\ JoinParts(chunk.content.parts) # <<>>
        THEN JoinParts(chunk.content.parts)
    ELSE IF chunk.text # <<>> THEN chunk.text
    ELSE IF ContentTruthy(chunk.kwargs) /\ chunk.kwargs.content.k = "string"
        THEN chunk.kwargs.content.s
    ELSE IF /\ ContentTruthy(chunk.kwargs)
            /\ chunk.kwargs.content.k = "array"
            /\ Len(chunk.kwargs.content.parts) > 0
        THEN JoinParts(chunk.kwargs.content.parts)
    ELSE IF ContentTruthy(chunk.lc_kwargs) /\ chunk.lc_kwargs.content.k = "string"
        THEN chunk.lc_kwargs.content.s
    ELSE IF ContentTruthy(chunk.message) /\ chunk.message.content.k = "string"
        THEN chunk.message.content.s
    ELSE <<>>

\* The shapes in which the event feed carries a fragment: direct string
\* content, a list of content parts, and the kwargs wrapper of a replayed
\* message.
ChunkShapes(f) ==
    { Chunk(StringContent(f), <<>>, NoWrapper, NoWrapper, NoWrapper),
      Chunk(ArrayContent(<<ObjectPart(f, <<>>)>>), <<>>, NoWrapper, NoWrapper, NoWrapper),
      Chunk(NoContent, <<>>, Wrapper(StringContent(f)), NoWrapper, NoWrapper) }

----------------------------------------------------------------------------
\* The state after the server has started: no connection yet.

Conns == 1..MaxConns

\* The tools the tool server lists, in its order.
ServerTools ==
    <<"search_places", "get_place_details", "get_directions", "geocode",
      "reverse_geocode", "nearby_search">>

\* start() has run to server.listen: the tool list was requested once and
\* mcpTools holds one tool per listed tool.
Listening ==
    /\ proc = "listening"
    /\ mcpTools = ServerTools
    /\ listCalls = 1
    /\ mcpClient = "client"
    /\ mcpLink = "open"

\* const sessions = new Map(): empty; no connection accepted.
InitStore ==
    /\ now = 0
    /\ conns = [c \in Conns |-> [state |-> "NONE", id |-> 0]]
    /\ store = <<>>
    /\ hist = [c \in Conns |-> <<>>]
    /\ held = [c \in Conns |-> 0]
    /\ phase = [c \in Conns |-> "idle"]

\* App() has rendered and its effect has called new WebSocket(wsUrl): no
\* message, no status, an empty buffer, the default map.
InitClient ==
    /\ socket = "CONNECTING"
    /\ messages = <<>>
    /\ thinkingStatus = NULL
    /\ streamingRef = <<>>
    /\ streamingContent = <<>>
    /\ mapState = [markers |-> "none", route |-> "none", center |-> "default"]
    /\ clientLog = <<>>

\* No function call is under study.
NoCall == arg = NULL /\ res = NULL

\* The server listens and nothing has connected.
ServerStarted ==
    /\ wsState = "NONE"
    /\ sessions = {}
    /\ chatHistory = <<>>
    /\ allAppended = <<>>
    /\ out = <<>>
    /\ turnsStarted = 0
    /\ turnsFailed = 0
    /\ pc = [t \in Slots |-> "idle"]
    /\ userMessage = [t \in Slots |-> Undefined]
    /\ fullResponse = [t \in Slots |-> Str(<<>>)]
    /\ mapAction = [t \in Slots |-> NULL]
    /\ toolsUsed = [t \in Slots |-> <<>>]
    /\ streamStarted = [t \in Slots |-> FALSE]
    /\ frags = [t \in Slots |-> <<>>]
    /\ tokPos = [t \in Slots |-> [cb |-> 0, ev |-> 0]]
    /\ calls = [t \in Slots |-> <<>>]
    /\ toolPos = [t \in Slots |-> [cb |-> 0, ev |-> 0]]
    /\ finalOutput = [t \in Slots |-> Undefined]
    /\ agentTools = [t \in Slots |-> <<>>]
    /\ InitStore
    /\ InitClient
    /\ Listening
    /\ dropped = <<>>

Init == ServerStarted /\ NoCall

\* A session in mid-life: nine exchanges and a tenth message whose answer was
\* empty have been stored, and no turn is in flight.  SpecHist reaches this
\* state from Init; SpecSession starts from it as well as from Init, so that
\* its turns meet the retention window.
RECURSIVE Exchanges(_)
Exchanges(n) ==
    IF n = 0 THEN <<>>
    ELSE Exchanges(n - 1) \o <<[role |-> "user", content |-> Str(<<"h", "i">>)],
                                [role |-> "assistant", content |-> Str(<<"a">>)]>>

MidSessionHistory ==
    Exchanges(9) \o <<[role |-> "user", content |-> Str(<<"h", "i">>)]>>

InitMidSession ==
    /\ wsState = "OPEN"
    /\ sessions = {SessionId}
    /\ chatHistory = MidSessionHistory
    /\ allAppended = MidSessionHistory
    /\ out = <<[GreetingEvent EXCEPT !.sent = TRUE]>>
    /\ turnsStarted = 0
    /\ turnsFailed = 0
    /\ pc = [t \in Slots |-> "idle"]
    /\ userMessage = [t \in Slots |-> Undefined]
    /\ fullResponse = [t \in Slots |-> Str(<<>>)]
    /\ mapAction = [t \in Slots |-> NULL]
    /\ toolsUsed = [t \in Slots |-> <<>>]
    /\ streamStarted = [t \in Slots |-> FALSE]
    /\ frags = [t \in Slots |-> <<>>]
    /\ tokPos = [t \in Slots |-> [cb |-> 0, ev |-> 0]]
    /\ calls = [t \in Slots |-> <<>>]
    /\ toolPos = [t \in Slots |-> [cb |-> 0, ev |-> 0]]
    /\ finalOutput = [t \in Slots |-> Undefined]
    /\ agentTools = [t \in Slots |-> <<>>]
    /\ InitStore
    /\ InitClient
    /\ Listening
    /\ NoCall
    /\ dropped = <<>>

----------------------------------------------------------------------------
\* The connection handler.

\* Mutant of sendGreeting: the welcome message is not sent.
sendGreeting_Missing(log) == log

\* wsSend(ws, {type: "response", content: "Hello! ..."}) in the connection
\* handler, where the socket is open.
sendGreeting(log) == Append(log, [GreetingEvent EXCEPT !.sent = TRUE])

\* wss.on("connection"): store the session, send the greeting.
Connect ==
    /\ proc = "listening"
    /\ wsState = "NONE"
    /\ wsState' = "OPEN"
    /\ sessions' = sessions \cup {SessionId}
    /\ chatHistory' = <<>>
    /\ out' = sendGreeting(out)
    /\ UNCHANGED <<allAppended, turnsStarted, turnsFailed, pc, userMessage,
                   fullResponse, mapAction, toolsUsed, streamStarted, agentVars,
                   storeVars, procVars, callVars, dropped>>

\* ws.on("close")
Close ==
    /\ wsState = "OPEN"
    /\ wsState' = "CLOSED"
    /\ sessions' = sessions \ {SessionId}
    /\ UNCHANGED <<chatHistory, allAppended, out, turnsStarted, turnsFailed, pc,
                   userMessage, fullResponse, mapAction, toolsUsed, streamStarted,
                   agentVars, storeVars, procVars, callVars, dropped>>

----------------------------------------------------------------------------
\* Inbound payloads that start no turn.

\* data.toString(): k = "object" is a JSON object document with the given
\* type field (NULL: none), "number" a JSON number, "jsonnull" the document
\* null, "text" text that is not JSON.
Payload(k, type) == [k |-> k, type |-> type]

\* Where the message handler goes with a payload: into the chat branch, past
\* it, or into the outer catch block (JSON.parse throws; message.type of null
\* throws).
HandlerBranch(data) ==
    CASE data.k \in {"text", "jsonnull"} -> "catch"
      [] data.k = "object" /\ data.type = "chat" -> "chat"
      [] OTHER -> "skip"

\* Mutant of elseBranch: a message of another type is answered with an error.
elseBranch_RepliesError(log) == WsSend(log, ErrorEvent(0))

\* if (message.type === "chat") { ... } has no else branch.
elseBranch(log) == log

\* Mutant of catchMessageError: the connection is closed.
catchMessageError_Closes(state) == "CLOSED"

\* catch (error) { log.error("Message handling error", error) }
catchMessageError(state) == state

\* A message that parses and is not of type "chat" arrives.
ReceiveNonChat(data) ==
    /\ wsState = "OPEN"
    /\ Len(dropped) < MaxDropped
    /\ HandlerBranch(data) = "skip"
    /\ dropped' = Append(dropped, data)
    /\ out' = elseBranch(out)
    /\ UNCHANGED <<wsState, sessions, chatHistory, allAppended, turnsStarted,
                   turnsFailed, pc, userMessage, fullResponse, mapAction, toolsUsed,
                   streamStarted, agentVars, storeVars, procVars, callVars>>

\* A payload on which the handler throws before the chat branch arrives.
ReceiveThrowing(data) ==
    /\ wsState = "OPEN"
    /\ Len(dropped) < MaxDropped
    /\ HandlerBranch(data) = "catch"
    /\ dropped' = Append(dropped, data)
    /\ wsState' = catchMessageError(wsState)
    /\ UNCHANGED <<out, sessions, chatHistory, allAppended, turnsStarted,
                   turnsFailed, pc, userMessage, fullResponse, mapAction, toolsUsed,
                   streamStarted, agentVars, storeVars, procVars, callVars>>

----------------------------------------------------------------------------
\* The callbacks object of a turn (handlerVars only).

\* Mutant of handleLLMNewToken: streamStarted is never set, so every token
\* clears the indicator again.
handleLLMNewToken_ClearsEveryToken(t, token) ==
    /\ IF token # <<>>
       THEN /\ fullResponse' = [fullResponse EXCEPT ![t] = Str(@.v \o token)]
            /\ out' = WsSend(WsSend(out, ThinkingEvent(t, NULL)), StreamEvent(t, token))
       ELSE UNCHANGED <<fullResponse, out>>
    /\ UNCHANGED <<streamStarted, mapAction, toolsUsed>>

\* Mutant of handleLLMNewToken: the token is forwarded but not accumulated.
handleLLMNewToken_NoAccumulate(t, token) ==
    /\ IF token # <<>>
       THEN /\ streamStarted' = [streamStarted EXCEPT ![t] = TRUE]
            /\ out' = IF ~streamStarted[t]
                      THEN WsSend(WsSend(out, ThinkingEvent(t, NULL)),
                                  StreamEvent(t, token))
                      ELSE WsSend(out, StreamEvent(t, token))
       ELSE UNCHANGED <<streamStarted, out>>
    /\ UNCHANGED <<fullResponse, mapAction, toolsUsed>>

\* Mutant of handleLLMNewToken: fullResponse is one variable of the module,
\* shared by the runs of the handler.
handleLLMNewToken_ModuleState(t, token) ==
    /\ IF token # <<>>
       THEN /\ streamStarted' = [streamStarted EXCEPT ![t] = TRUE]
            /\ fullResponse' = [s \in Slots |-> Str(fullResponse[s].v \o token)]
            /\ out' = IF ~streamStarted[t]
                      THEN WsSend(WsSend(out, ThinkingEvent(t, NULL)),
                                  StreamEvent(t, token))
                      ELSE WsSend(out, StreamEvent(t, token))
       ELSE UNCHANGED <<streamStarted, fullResponse, out>>
    /\ UNCHANGED <<mapAction, toolsUsed>>

handleLLMNewToken(t, token) ==
    /\ IF token # <<>>
       THEN /\ streamStarted' = [streamStarted EXCEPT ![t] = TRUE]
            /\ fullResponse' = [fullResponse EXCEPT ![t] = Str(@.v \o token)]
            /\ out' = IF ~streamStarted[t]
                      THEN WsSend(WsSend(out, ThinkingEvent(t, NULL)),
                                  StreamEvent(t, token))
                      ELSE WsSend(out, StreamEvent(t, token))
       ELSE UNCHANGED <<streamStarted, fullResponse, out>>
    /\ UNCHANGED <<mapAction, toolsUsed>>

handleToolStart(t, toolName) ==
    /\ toolsUsed' = [toolsUsed EXCEPT ![t] = Append(@, toolName)]
    /\ out' = WsSend(out, ThinkingEvent(t, UsingText(toolName)))
    /\ UNCHANGED <<fullResponse, mapAction, streamStarted>>

\* Mutant of handleToolEnd: a tool result that is an error body is reported to
\* the client as a protocol error.
handleToolEnd_ReportsToolError(t, output) ==
    LET ma == ParsedMapAction(output)
    IN  /\ IF ma # NULL
           THEN /\ mapAction' = [mapAction EXCEPT ![t] = ma]
                /\ out' = WsSend(WsSend(out, MapActionEvent(t, ma)),
                                 ThinkingEvent(t, GeneratingText))
           ELSE /\ mapAction' = mapAction
                /\ out' = IF output = ToolErrorBody
                          THEN WsSend(out, ErrorEvent(t))
                          ELSE WsSend(out, ThinkingEvent(t, GeneratingText))
        /\ UNCHANGED <<fullResponse, toolsUsed, streamStarted>>

handleToolEnd(t, output) ==
    LET ma == ParsedMapAction(output)
    IN  /\ IF ma # NULL
           THEN /\ mapAction' = [mapAction EXCEPT ![t] = ma]
                /\ out' = WsSend(WsSend(out, MapActionEvent(t, ma)),
                                 ThinkingEvent(t, GeneratingText))
           ELSE /\ mapAction' = mapAction
                /\ out' = WsSend(out, ThinkingEvent(t, GeneratingText))
        /\ UNCHANGED <<fullResponse, toolsUsed, streamStarted>>

----------------------------------------------------------------------------
\* One iteration of "for await (const event of stream)" (handlerVars only).

\* eventType === "on_tool_start"
onToolStart(t, name) ==
    /\ IF ~(\E i \in 1..Len(toolsUsed[t]) : toolsUsed[t][i] = name)
       THEN /\ toolsUsed' = [toolsUsed EXCEPT ![t] = Append(@, name)]
            /\ out' = WsSend(out, ThinkingEvent(t, UsingText(name)))
       ELSE UNCHANGED <<toolsUsed, out>>
    /\ UNCHANGED <<fullResponse, mapAction, streamStarted>>

\* Mutant of onToolEnd: the test of parsed.mapAction is missing.
onToolEnd_NoMapActionTest(t, toolOutput) ==
    LET ma == IF OutputTruthy(toolOutput) THEN ParsedMapAction(toolOutput) ELSE NULL
    IN  /\ IF mapAction[t] = NULL
           THEN /\ mapAction' = [mapAction EXCEPT ![t] = ma]
                /\ out' = WsSend(WsSend(out, MapActionEvent(t, ma)),
                                 ThinkingEvent(t, GeneratingText))
           ELSE UNCHANGED <<mapAction, out>>
        /\ UNCHANGED <<fullResponse, toolsUsed, streamStarted>>

\* eventType === "on_tool_end"
onToolEnd(t, toolOutput) ==
    LET ma == IF OutputTruthy(toolOutput) THEN ParsedMapAction(toolOutput) ELSE NULL
    IN  /\ IF mapAction[t] = NULL
           THEN IF ma # NULL
                THEN /\ mapAction' = [mapAction EXCEPT ![t] = ma]
                     /\ out' = WsSend(WsSend(out, MapActionEvent(t, ma)),
                                      ThinkingEvent(t, GeneratingText))
                ELSE /\ mapAction' = mapAction
                     /\ out' = WsSend(out, ThinkingEvent(t, GeneratingText))
           ELSE UNCHANGED <<mapAction, out>>
        /\ UNCHANGED <<fullResponse, toolsUsed, streamStarted>>

\* Mutant of onChatModelStream: the streamStarted test is missing.
onChatModelStream_AlwaysClears(t, chunk) ==
    LET text == extractTextFromChunk(chunk)
    IN  /\ IF text # <<>> /\ ~Includes(fullResponse[t].v, text)
           THEN /\ streamStarted' = [streamStarted EXCEPT ![t] = TRUE]
                /\ fullResponse' = [fullResponse EXCEPT ![t] = Str(@.v \o text)]
                /\ out' = WsSend(WsSend(out, ThinkingEvent(t, NULL)),
                                 StreamEvent(t, text))
           ELSE UNCHANGED <<streamStarted, fullResponse, out>>
        /\ UNCHANGED <<mapAction, toolsUsed>>

\* Mutant of onChatModelStream: the includes() test is missing.
onChatModelStream_NoDedup(t, chunk) ==
    LET text == extractTextFromChunk(chunk)
    IN  /\ IF text # <<>>
           THEN /\ streamStarted' = [streamStarted EXCEPT ![t] = TRUE]
                /\ fullResponse' = [fullResponse EXCEPT ![t] = Str(@.v \o text)]
                /\ out' = IF ~streamStarted[t]
                          THEN WsSend(WsSend(out, ThinkingEvent(t, NULL)),
                                      StreamEvent(t, text))
                          ELSE WsSend(out, StreamEvent(t, text))
           ELSE UNCHANGED <<streamStarted, fullResponse, out>>
        /\ UNCHANGED <<mapAction, toolsUsed>>

\* eventType === "on_chat_model_stream"
onChatModelStream(t, chunk) ==
    LET text == extractTextFromChunk(chunk)
    IN  /\ IF text # <<>> /\ ~Includes(fullResponse[t].v, text)
           THEN /\ streamStarted' = [streamStarted EXCEPT ![t] = TRUE]
                /\ fullResponse' = [fullResponse EXCEPT ![t] = Str(@.v \o text)]
                /\ out' = IF ~streamStarted[t]
                          THEN WsSend(WsSend(out, ThinkingEvent(t, NULL)),
                                      StreamEvent(t, text))
                          ELSE WsSend(out, StreamEvent(t, text))
           ELSE UNCHANGED <<streamStarted, fullResponse, out>>
        /\ UNCHANGED <<mapAction, toolsUsed>>

\* Mutant of onChainEnd: the streamStarted test is missing.
onChainEnd_AlwaysReplaces(t, output) ==
    /\ IF Truthy(output)
       THEN fullResponse' = [fullResponse EXCEPT ![t] = output]
       ELSE fullResponse' = fullResponse
    /\ UNCHANGED <<out, mapAction, toolsUsed, streamStarted>>

\* eventType === "on_chain_end" && event.name === "AgentExecutor"
onChainEnd(t, output) ==
    /\ IF Truthy(output) /\ ~streamStarted[t]
       THEN fullResponse' = [fullResponse EXCEPT ![t] = output]
       ELSE fullResponse' = fullResponse
    /\ UNCHANGED <<out, mapAction, toolsUsed, streamStarted>>

----------------------------------------------------------------------------
\* The chat branch of ws.on("message"), from the message to the first await.

HumanMessage(content) == [role |-> "user", content |-> content]

AIMessage(content) == [role |-> "assistant", content |-> content]

\* Mutant of createAgent: the agent is built without the cached tools.
createAgent_NoTools == <<>>

\* createAgent(): the tools of the AgentExecutor it returns.
createAgent == mcpTools

\* The closure state of a new run of the handler in slot t; the wsSend calls of
\* the slot's previous run are dropped from the record.
NewTurn(t, content) ==
    /\ userMessage' = [userMessage EXCEPT ![t] = content]
    /\ fullResponse' = [fullResponse EXCEPT ![t] = Str(<<>>)]
    /\ mapAction' = [mapAction EXCEPT ![t] = NULL]
    /\ toolsUsed' = [toolsUsed EXCEPT ![t] = <<>>]
    /\ streamStarted' = [streamStarted EXCEPT ![t] = FALSE]
    /\ frags' = [frags EXCEPT ![t] = <<>>]
    /\ tokPos' = [tokPos EXCEPT ![t] = [cb |-> 0, ev |-> 0]]
    /\ calls' = [calls EXCEPT ![t] = <<>>]
    /\ toolPos' = [toolPos EXCEPT ![t] = [cb |-> 0, ev |-> 0]]
    /\ finalOutput' = [finalOutput EXCEPT ![t] = Undefined]
    /\ agentTools' = [agentTools EXCEPT ![t] = createAgent]
    /\ turnsStarted' = turnsStarted + 1

PreviousTurnsDropped(t) == SelectSeq(out, LAMBDA e : e.turn # t)

\* Mutant of catchAgentError: the exception is swallowed without a message.
catchAgentError_Silent(t, log) == log

\* catch (error) { wsSend(ws, {type: "error", content: "Sorry, ..."}) }
catchAgentError(t, log) == WsSend(log, ErrorEvent(t))

\* Mutant of clearThinking: the send has no readyState test and throws on a
\* closed socket, after the catch block, so that nothing is sent.
clearThinking_ThrowsWhenClosed(t, log) ==
    IF wsState = "OPEN" THEN WsSend(log, ThinkingEvent(t, NULL)) ELSE log

\* Mutant of clearThinking: the final wsSend is missing.
clearThinking_Missing(t, log) == log

\* // Clear thinking status
clearThinking(t, log) == WsSend(log, ThinkingEvent(t, NULL))

\* Mutant of sendThinking: the indicator is not sent.
sendThinking_Missing(t, log) == log

\* wsSend(ws, {type: "thinking", status: "Thinking..."})
sendThinking(t, log) == WsSend(log, ThinkingEvent(t, ThinkingText))

\* A {type: "chat"} message arrives; the handler sends the thinking indicator,
\* creates the agent and awaits agent.streamEvents(...).
ReceiveChat(t, content, limit) ==
    /\ wsState = "OPEN"
    /\ SessionId \in sessions
    /\ pc[t] \in {"idle", "done"}
    /\ turnsStarted < limit
    /\ NewTurn(t, content)
    /\ out' = sendThinking(t, PreviousTurnsDropped(t))
    /\ pc' = [pc EXCEPT ![t] = "opening"]
    /\ UNCHANGED <<connVars, chatHistory, allAppended, turnsFailed>>

\* The same message when createAgent() throws.
ReceiveChatCreateThrows(t, content, limit) ==
    /\ wsState = "OPEN"
    /\ SessionId \in sessions
    /\ pc[t] \in {"idle", "done"}
    /\ turnsStarted < limit
    /\ NewTurn(t, content)
    /\ out' = clearThinking(t, catchAgentError(t,
                   sendThinking(t, PreviousTurnsDropped(t))))
    /\ pc' = [pc EXCEPT ![t] = "done"]
    /\ turnsFailed' = turnsFailed + 1
    /\ UNCHANGED <<connVars, chatHistory, allAppended>>

\* await agent.streamEvents(...) yields the stream.
OpenStream(t) ==
    /\ pc[t] = "opening"
    /\ pc' = [pc EXCEPT ![t] = "streaming"]
    /\ UNCHANGED <<connVars, chatHistory, allAppended, turnsStarted, turnsFailed,
                   userMessage, handlerVars, agentVars>>

\* await agent.streamEvents(...) rejects.
OpenStreamThrows(t) ==
    /\ pc[t] = "opening"
    /\ pc' = [pc EXCEPT ![t] = "done"]
    /\ out' = clearThinking(t, catchAgentError(t, out))
    /\ turnsFailed' = turnsFailed + 1
    /\ UNCHANGED <<connVars, chatHistory, allAppended, turnsStarted, userMessage,
                   fullResponse, mapAction, toolsUsed, streamStarted, agentVars>>

\* The stream raises while it is consumed.
StreamThrows(t) ==
    /\ pc[t] \in {"streaming", "draining"}
    /\ pc' = [pc EXCEPT ![t] = "done"]
    /\ out' = clearThinking(t, catchAgentError(t, out))
    /\ turnsFailed' = turnsFailed + 1
    /\ UNCHANGED <<connVars, chatHistory, allAppended, turnsStarted, userMessage,
                   fullResponse, mapAction, toolsUsed, streamStarted, agentVars>>

----------------------------------------------------------------------------
\* After the loop: stream_end, the history update, the final thinking(null).

\* if (userMessage?.trim()) session.chatHistory.push(new HumanMessage(userMessage))
pushUser(h, content) ==
    IF TrimTruthy(content) THEN Append(h, HumanMessage(content)) ELSE h

\* Mutant of pushAssistant: the test is "if (fullResponse)", without trim().
pushAssistant_NoTrim(h, response) ==
    IF Truthy(response) THEN Append(h, AIMessage(response)) ELSE h

\* if (fullResponse?.trim()) session.chatHistory.push(new AIMessage(fullResponse))
pushAssistant(h, response) ==
    IF TrimTruthy(response) THEN Append(h, AIMessage(response)) ELSE h

\* if (chatHistory.length > 20) chatHistory = chatHistory.slice(-20)
keepRecent(h) ==
    IF Len(h) > HistoryLimit
    THEN SubSeq(h, Len(h) - HistoryLimit + 1, Len(h))
    ELSE h

\* wsSend(ws, {type: "stream_end", content: fullResponse, mapAction})
sendStreamEnd(t, log) ==
    WsSend(log, StreamEndEvent(t, fullResponse[t], mapAction[t]))

\* Lines 425-454.  A trim() that throws leaves the try block where it stands:
\* what was pushed stays, the truncation is skipped, the catch block runs.
finishTurn(t) ==
    LET sentEnd == sendStreamEnd(t, out)
        withUser == pushUser(chatHistory, userMessage[t])
        withBoth == pushAssistant(withUser, fullResponse[t])
    IN  IF TrimThrows(userMessage[t])
        THEN /\ chatHistory' = chatHistory
             /\ allAppended' = allAppended
             /\ out' = clearThinking(t, catchAgentError(t, sentEnd))
             /\ turnsFailed' = turnsFailed + 1
        ELSE IF TrimThrows(fullResponse[t])
        THEN /\ chatHistory' = withUser
             /\ allAppended' = pushUser(allAppended, userMessage[t])
             /\ out' = clearThinking(t, catchAgentError(t, sentEnd))
             /\ turnsFailed' = turnsFailed + 1
        ELSE /\ chatHistory' = keepRecent(withBoth)
             /\ allAppended' =
                    pushAssistant(pushUser(allAppended, userMessage[t]), fullResponse[t])
             /\ out' = clearThinking(t, sentEnd)
             /\ turnsFailed' = turnsFailed

\* The stream ends and the handler runs to its end.
EndOfStream(t) ==
    /\ pc[t] \in {"streaming", "draining"}
    /\ pc' = [pc EXCEPT ![t] = "done"]
    /\ finishTurn(t)
    /\ UNCHANGED <<connVars, turnsStarted, userMessage, fullResponse, mapAction,
                   toolsUsed, streamStarted, agentVars>>

----------------------------------------------------------------------------
\* The agent run: what it produces and on which channel it is reported.

\* Notices delivered to the handler in the turn of slot t.
Delivered(t) == tokPos[t].cb + tokPos[t].ev + toolPos[t].cb + toolPos[t].ev

\* Channel ch reports its next fragment: one the other channel has already
\* reported, or a new one the model produces now.
NextFragment(t, ch, token) ==
    /\ \/ /\ tokPos[t][ch] < Len(frags[t])
          /\ token = frags[t][tokPos[t][ch] + 1]
          /\ frags' = frags
       \/ /\ tokPos[t][ch] = Len(frags[t])
          /\ frags' = [frags EXCEPT ![t] = Append(@, token)]
    /\ tokPos' = [tokPos EXCEPT ![t][ch] = @ + 1]

\* Channel ch reports the start of its next tool call.
NextToolStart(t, ch, name, output) ==
    LET i == (toolPos[t][ch] \div 2) + 1
    IN  /\ toolPos[t][ch] % 2 = 0
        /\ \/ /\ i <= Len(calls[t])
              /\ name = calls[t][i].name
              /\ output = calls[t][i].output
              /\ calls' = calls
           \/ /\ i = Len(calls[t]) + 1
              /\ calls' = [calls EXCEPT ![t] =
                              Append(@, [name |-> name, output |-> output])]
        /\ toolPos' = [toolPos EXCEPT ![t][ch] = @ + 1]

\* Channel ch reports the end of the tool call whose start it reported last.
NextToolEnd(t, ch, output) ==
    /\ toolPos[t][ch] % 2 = 1
    /\ output = calls[t][(toolPos[t][ch] + 1) \div 2].output
    /\ toolPos' = [toolPos EXCEPT ![t][ch] = @ + 1]
    /\ calls' = calls

TokenCallback(t, token, budget) ==
    /\ pc[t] = "streaming"
    /\ Delivered(t) < budget
    /\ NextFragment(t, "cb", token)
    /\ handleLLMNewToken(t, token)
    /\ UNCHANGED <<connVars, chatHistory, allAppended, turnsStarted, turnsFailed,
                   pc, userMessage, calls, toolPos, finalOutput, agentTools>>

TokenEvent(t, token, budget) ==
    /\ pc[t] = "streaming"
    /\ Delivered(t) < budget
    /\ NextFragment(t, "ev", token)
    /\ \E chunk \in ChunkShapes(token) : onChatModelStream(t, chunk)
    /\ UNCHANGED <<connVars, chatHistory, allAppended, turnsStarted, turnsFailed,
                   pc, userMessage, calls, toolPos, finalOutput, agentTools>>

ToolStartCallback(t, name, output, budget) ==
    /\ pc[t] = "streaming"
    /\ Delivered(t) < budget
    /\ NextToolStart(t, "cb", name, output)
    /\ handleToolStart(t, name)
    /\ UNCHANGED <<connVars, chatHistory, allAppended, turnsStarted, turnsFailed,
                   pc, userMessage, frags, tokPos, finalOutput, agentTools>>

ToolStartEvent(t, name, output, budget) ==
    /\ pc[t] = "streaming"
    /\ Delivered(t) < budget
    /\ NextToolStart(t, "ev", name, output)
    /\ onToolStart(t, name)
    /\ UNCHANGED <<connVars, chatHistory, allAppended, turnsStarted, turnsFailed,
                   pc, userMessage, frags, tokPos, finalOutput, agentTools>>

ToolEndCallback(t, output, budget) ==
    /\ pc[t] = "streaming"
    /\ Delivered(t) < budget
    /\ NextToolEnd(t, "cb", output)
    /\ handleToolEnd(t, output)
    /\ UNCHANGED <<connVars, chatHistory, allAppended, turnsStarted, turnsFailed,
                   pc, userMessage, frags, tokPos, finalOutput, agentTools>>

ToolEndEvent(t, output, budget) ==
    /\ pc[t] = "streaming"
    /\ Delivered(t) < budget
    /\ NextToolEnd(t, "ev", output)
    /\ onToolEnd(t, output)
    /\ UNCHANGED <<connVars, chatHistory, allAppended, turnsStarted, turnsFailed,
                   pc, userMessage, frags, tokPos, finalOutput, agentTools>>

\* The root run ends: the last event of the feed.
ChainEndEvent(t, output) ==
    /\ pc[t] = "streaming"
    /\ pc' = [pc EXCEPT ![t] = "draining"]
    /\ finalOutput' = [finalOutput EXCEPT ![t] = output]
    /\ onChainEnd(t, output)
    /\ UNCHANGED <<connVars, chatHistory, allAppended, turnsStarted, turnsFailed,
                   userMessage, frags, tokPos, calls, toolPos, agentTools>>

----------------------------------------------------------------------------
\* Inputs.

\* message.content: text, blank text, a value that is not a string, absent.
UserMessages == {Str(<<"h", "i">>), Str(<<" ">>), NonString, Undefined}

\* Fragments the model streams; the empty one is what a tool-call chunk carries.
Tokens == {<<>>, <<"a">>, <<"a", "b">>}

\* What a tool hands back to the agent.
ToolOutputs ==
    {toolFunc(CallToolRequest(name, response)) :
        name \in ToolCallNames, response \in ProviderResponses}

\* event.data?.output?.output of the root chain end.
FinalOutputs == {Undefined, Str(<<"o", "k">>), Str(<<" ">>), NonString}

\* The inputs of Spec, which follows one turn through every interleaving of
\* MaxEvents notices.
TurnMessages == {Str(<<"h", "i">>), NonString}

TurnToolNames == {"search_places"}

TurnFinalOutputs == {Str(<<"o", "k">>), NonString}

\* The inputs of SpecSession, which follows MaxTurns successive turns.
SessionTokens == {<<"a">>, <<" ">>}

\* The inputs of SpecHist, which follows HistTurns successive turns.
HistMessages == {Str(<<"h", "i">>)}

HistTokens == {<<"a">>}

HistFinalOutputs == {NonString}

----------------------------------------------------------------------------
\* Specifications.

\* What can happen to the turn of slot t once its message has been received.
TurnSteps(t, budget, Toks, Names, Outs, Finals) ==
    \/ OpenStream(t)
    \/ OpenStreamThrows(t)
    \/ \E token \in Toks : TokenCallback(t, token, budget)
    \/ \E token \in Toks : TokenEvent(t, token, budget)
    \/ \E name \in Names, output \in Outs : ToolStartCallback(t, name, output, budget)
    \/ \E name \in Names, output \in Outs : ToolStartEvent(t, name, output, budget)
    \/ \E output \in Outs : ToolEndCallback(t, output, budget)
    \/ \E output \in Outs : ToolEndEvent(t, output, budget)
    \/ \E output \in Finals : ChainEndEvent(t, output)
    \/ StreamThrows(t)
    \/ EndOfStream(t)

\* Spec: one connection and its first chat message, with every input.
Next ==
    \/ Connect
    \/ Close
    \/ \E content \in TurnMessages : ReceiveChat(1, content, 1)
    \/ \E content \in TurnMessages : ReceiveChatCreateThrows(1, content, 1)
    \/ TurnSteps(1, MaxEvents, Tokens, TurnToolNames, ToolOutputs, TurnFinalOutputs)

Spec == Init /\ [][Next]_vars

\* SpecSession: one connection and MaxTurns chat messages, each sent after the
\* turn before it has ended; the agent streams text and calls no tool.
NextSession ==
    \/ Connect
    \/ Close
    \/ \E content \in UserMessages : ReceiveChat(1, content, MaxTurns)
    \/ \E content \in UserMessages : ReceiveChatCreateThrows(1, content, MaxTurns)
    \/ OpenStream(1)
    \/ OpenStreamThrows(1)
    \/ \E token \in SessionTokens : TokenCallback(1, token, SessionEvents)
    \/ \E token \in SessionTokens : TokenEvent(1, token, SessionEvents)
    \/ \E output \in FinalOutputs : ChainEndEvent(1, output)
    \/ StreamThrows(1)
    \/ EndOfStream(1)

SpecSession == (Init \/ InitMidSession) /\ [][NextSession]_vars

\* SpecHist: one connection and HistTurns chat messages, enough to fill the
\* retention window; a turn streams at most one token.
NextHist ==
    \/ Connect
    \/ \E content \in HistMessages : ReceiveChat(1, content, HistTurns)
    \/ OpenStream(1)
    \/ \E token \in HistTokens : TokenCallback(1, token, 1)
    \/ \E output \in HistFinalOutputs : ChainEndEvent(1, output)
    \/ EndOfStream(1)

SpecHist == Init /\ [][NextHist]_vars

\* SpecOverlap: one connection whose client does not wait for the end of a turn
\* before it sends the next message; each run of the async handler has a slot.
\* The agent streams text and calls no tool.
NextOverlap ==
    \/ Connect
    \/ \E t \in Slots, content \in HistMessages : ReceiveChat(t, content, OverlapTurns)
    \/ \E t \in Slots, content \in HistMessages :
          ReceiveChatCreateThrows(t, content, OverlapTurns)
    \/ \E t \in Slots : OpenStream(t)
    \/ \E t \in Slots : OpenStreamThrows(t)
    \/ \E t \in Slots, token \in HistTokens : TokenCallback(t, token, OverlapEvents)
    \/ \E t \in Slots, token \in HistTokens : TokenEvent(t, token, OverlapEvents)
    \/ \E t \in Slots, output \in TurnFinalOutputs : ChainEndEvent(t, output)
    \/ \E t \in Slots : StreamThrows(t)
    \/ \E t \in Slots : EndOfStream(t)

SpecOverlap == Init /\ [][NextOverlap]_vars

\* SpecSide: one connection and one turn in which the agent calls tools and
\* streams no text; a tool output is any value the handlers may be handed.

\* Tool outputs: text that is not JSON, a JSON object without mapAction, the
\* JSON document null, a value that is not a string, the empty string, the
\* error body of a failed call, and JSON objects whose mapAction has a type
\* the client knows or one it does not.
SideOutputs ==
    {ToolOutput("text", NULL), ToolOutput("json", NULL), ToolOutput("jsonnull", NULL),
     ToolOutput("object", NULL), ToolOutput("empty", NULL), ToolErrorBody,
     ToolOutput("json", "SHOW_MARKERS"), ToolOutput("json", "HIGHLIGHT")}

SideFinalOutputs == {Str(<<"o", "k">>)}

NextSide ==
    \/ Connect
    \/ \E content \in HistMessages : ReceiveChat(1, content, 1)
    \/ OpenStream(1)
    \/ \E name \in TurnToolNames, output \in SideOutputs :
          ToolStartCallback(1, name, output, SideEvents)
    \/ \E name \in TurnToolNames, output \in SideOutputs :
          ToolStartEvent(1, name, output, SideEvents)
    \/ \E output \in SideOutputs : ToolEndCallback(1, output, SideEvents)
    \/ \E output \in SideOutputs : ToolEndEvent(1, output, SideEvents)
    \/ \E output \in SideFinalOutputs : ChainEndEvent(1, output)
    \/ EndOfStream(1)

SpecSide == Init /\ [][NextSide]_vars

\* SpecInbound: one connection that receives chat messages and payloads that
\* are not chat messages, in any order; the agent streams text.

DroppedPayloads ==
    {Payload("object", "ping"), Payload("object", NULL), Payload("number", NULL),
     Payload("jsonnull", NULL), Payload("text", NULL)}

NextInbound ==
    \/ Connect
    \/ Close
    \/ \E content \in HistMessages : ReceiveChat(1, content, InboundTurns)
    \/ \E data \in DroppedPayloads : ReceiveNonChat(data)
    \/ \E data \in DroppedPayloads : ReceiveThrowing(data)
    \/ OpenStream(1)
    \/ \E token \in HistTokens : TokenCallback(1, token, 1)
    \/ \E output \in SideFinalOutputs : ChainEndEvent(1, output)
    \/ EndOfStream(1)

SpecInbound == Init /\ [][NextInbound]_vars

\* SpecIsolation: one connection with two runs of the handler in flight at
\* once, one per slot; the agent run of each slot streams its own text (token
\* callbacks), calls its own tool (tool events) and ends with its own output,
\* so that what a run produced can be told from what the other did.

SlotTokens(t) == IF t = 1 THEN {<<"a">>} ELSE {<<"b">>}

SlotToolNames(t) == IF t = 1 THEN {"search_places"} ELSE {"get_directions"}

SlotToolOutputs(t) ==
    IF t = 1 THEN {ToolOutput("json", "SHOW_MARKERS")}
    ELSE {ToolOutput("json", "SHOW_ROUTE")}

SlotFinalOutputs(t) == IF t = 1 THEN {Str(<<"x">>)} ELSE {Str(<<"y">>)}

\* A chat message arrives and its run of the handler takes a slot that no
\* run has used.
ReceiveChatInFreeSlot(t, content) ==
    /\ pc[t] = "idle"
    /\ ReceiveChat(t, content, Cardinality(Slots))

NextIsolation ==
    \/ Connect
    \/ \E t \in Slots, content \in HistMessages : ReceiveChatInFreeSlot(t, content)
    \/ \E t \in Slots : OpenStream(t)
    \/ \E t \in Slots : \E token \in SlotTokens(t) :
          TokenCallback(t, token, IsolationEvents)
    \/ \E t \in Slots : \E name \in SlotToolNames(t), output \in SlotToolOutputs(t) :
          ToolStartEvent(t, name, output, IsolationEvents)
    \/ \E t \in Slots : \E output \in SlotToolOutputs(t) :
          ToolEndEvent(t, output, IsolationEvents)
    \/ \E t \in Slots : \E output \in SlotFinalOutputs(t) : ChainEndEvent(t, output)
    \/ \E t \in Slots : EndOfStream(t)

SpecIsolation == Init /\ [][NextIsolation]_vars

\* SpecLive: one connection whose client may disconnect at any time, with the
\* scheduling the turn relies on: the promise of agent.streamEvents settles,
\* and the event feed ends or raises.
NextLive ==
    \/ Connect
    \/ Close
    \/ \E content \in TurnMessages : ReceiveChat(1, content, LiveTurns)
    \/ \E content \in TurnMessages : ReceiveChatCreateThrows(1, content, LiveTurns)
    \/ OpenStream(1)
    \/ OpenStreamThrows(1)
    \/ \E token \in HistTokens : TokenCallback(1, token, LiveEvents)
    \/ \E token \in HistTokens : TokenEvent(1, token, LiveEvents)
    \/ \E output \in TurnFinalOutputs : ChainEndEvent(1, output)
    \/ StreamThrows(1)
    \/ EndOfStream(1)

SpecLive ==
    /\ Init
    /\ [][NextLive]_vars
    /\ WF_vars(OpenStream(1) \/ OpenStreamThrows(1))
    /\ WF_vars(EndOfStream(1) \/ StreamThrows(1))

----------------------------------------------------------------------------
\* SpecStartup: the process from start() on, then one connection whose turns
\* call tools.

\* The module is loaded: let mcpTools = []; start() has been called and awaits
\* mcpClient.connect(transport) inside initMCPClient().
InitProcess ==
    /\ wsState = "NONE"
    /\ sessions = {}
    /\ chatHistory = <<>>
    /\ allAppended = <<>>
    /\ out = <<>>
    /\ turnsStarted = 0
    /\ turnsFailed = 0
    /\ pc = [t \in Slots |-> "idle"]
    /\ userMessage = [t \in Slots |-> Undefined]
    /\ fullResponse = [t \in Slots |-> Str(<<>>)]
    /\ mapAction = [t \in Slots |-> NULL]
    /\ toolsUsed = [t \in Slots |-> <<>>]
    /\ streamStarted = [t \in Slots |-> FALSE]
    /\ frags = [t \in Slots |-> <<>>]
    /\ tokPos = [t \in Slots |-> [cb |-> 0, ev |-> 0]]
    /\ calls = [t \in Slots |-> <<>>]
    /\ toolPos = [t \in Slots |-> [cb |-> 0, ev |-> 0]]
    /\ finalOutput = [t \in Slots |-> Undefined]
    /\ agentTools = [t \in Slots |-> <<>>]
    /\ InitStore
    /\ InitClient
    /\ NoCall
    /\ dropped = <<>>
    /\ proc = "connecting"
    /\ mcpTools = <<>>
    /\ listCalls = 0
    /\ mcpClient = "client"
    /\ mcpLink = "closed"

\* Mutant of startFailed: the failure is logged and the server listens anyway.
startFailed_Listens == "listening"

\* catch (error) { log.error("Failed to start server", error); process.exit(1) }
startFailed == "exited"

\* mcpClient.connect resolves; initMCPClient goes on to await listTools().
connectResolves ==
    /\ proc = "connecting"
    /\ proc' = "listing"
    /\ listCalls' = listCalls + 1
    /\ mcpLink' = "open"
    /\ UNCHANGED <<wsState, sessions, chatHistory, allAppended, out, turnsStarted,
                   turnsFailed, pc, userMessage, handlerVars, agentVars, storeVars,
                   mcpTools, mcpClient, callVars, dropped>>

\* mcpClient.connect rejects: initMCPClient rethrows and start() exits.
connectRejects ==
    /\ proc = "connecting"
    /\ proc' = startFailed
    /\ UNCHANGED <<wsState, sessions, chatHistory, allAppended, out, turnsStarted,
                   turnsFailed, pc, userMessage, handlerVars, agentVars, storeVars,
                   mcpTools, listCalls, mcpClient, mcpLink, callVars, dropped>>

\* listTools() resolves: mcpTools = toolsResponse.tools.map(...), then
\* server.listen(PORT).
listToolsResolves(tools) ==
    /\ proc = "listing"
    /\ mcpTools' = tools
    /\ proc' = "listening"
    /\ UNCHANGED <<wsState, sessions, chatHistory, allAppended, out, turnsStarted,
                   turnsFailed, pc, userMessage, handlerVars, agentVars, storeVars,
                   listCalls, mcpClient, mcpLink, callVars, dropped>>

\* listTools() rejects, or converting a tool throws: mcpTools is not assigned,
\* initMCPClient rethrows and start() exits.
listToolsRejects ==
    /\ proc = "listing"
    /\ proc' = startFailed
    /\ UNCHANGED <<wsState, sessions, chatHistory, allAppended, out, turnsStarted,
                   turnsFailed, pc, userMessage, handlerVars, agentVars, storeVars,
                   mcpTools, listCalls, mcpClient, mcpLink, callVars, dropped>>

\* The tool server process exits or its pipe closes while the server runs:
\* the Client object stays in mcpClient.
transportCloses ==
    /\ proc = "listening"
    /\ mcpLink = "open"
    /\ mcpLink' = "closed"
    /\ UNCHANGED <<wsState, sessions, chatHistory, allAppended, out, turnsStarted,
                   turnsFailed, pc, userMessage, handlerVars, agentVars, storeVars,
                   proc, mcpTools, listCalls, mcpClient, callVars, dropped>>

\* GET /health: res.json({status: "ok", mcpConnected: mcpClient !== null})
health == [status |-> "ok", mcpConnected |-> mcpClient # NULL]

NextStartup ==
    \/ transportCloses
    \/ connectResolves
    \/ connectRejects
    \/ listToolsResolves(ServerTools)
    \/ listToolsRejects
    \/ Connect
    \/ Close
    \/ \E content \in HistMessages : ReceiveChat(1, content, MaxTurns)
    \/ \E content \in HistMessages : ReceiveChatCreateThrows(1, content, MaxTurns)
    \/ TurnSteps(1, StartupEvents, HistTokens, TurnToolNames, ToolOutputs,
                 TurnFinalOutputs)

SpecStartup == InitProcess /\ [][NextStartup]_vars

----------------------------------------------------------------------------
\* SpecTools: one invocation of a tool by the agent, for every tool name, every
\* answer of the map provider and every way the call can come back.

NotReturned == [done |-> FALSE, throws |-> FALSE, value |-> ToolOutput("empty", NULL)]

NotReplied == [text |-> ToolOutput("empty", NULL), isError |-> FALSE]

InitTools ==
    /\ ServerStarted
    /\ arg \in [name : ToolCallNames, response : ProviderResponses,
                transport : Transports, stage : {"called"}, reply : {NotReplied}]
    /\ res = NotReturned

\* The tool server handles the request.
HandleCallTool ==
    /\ arg.stage = "called"
    /\ arg' = [arg EXCEPT !.stage = "replied",
                          !.reply = CallToolRequest(arg.name, arg.response)]
    /\ UNCHANGED <<runVars, storeVars, res>>

\* The call comes back to the tool func, which returns or throws.
ReturnFromTool ==
    /\ arg.stage = "replied"
    /\ arg' = [arg EXCEPT !.stage = "returned"]
    /\ res' = invokeTool(CallToolResult(arg.transport, arg.reply))
    /\ UNCHANGED <<runVars, storeVars>>

NextTools == HandleCallTool \/ ReturnFromTool

SpecTools == InitTools /\ [][NextTools]_vars

----------------------------------------------------------------------------
\* SpecSchema: the translation of one tool's input schema, for every
\* descriptor of two declared parameters.

\* An array value of a descriptor.
List(xs) == [k |-> "object", v |-> xs]

ParamNames == {"mode", "radius"}

\* prop.type: the three types the switch knows, two it does not, and none.
ParamTypes == {"string", "number", "boolean", "integer", "array", NULL}

\* prop.enum: absent, an empty list, a list of values.
ParamEnums == {Undefined, List(<<>>), List(<<"driving", "walking">>)}

ParamDescriptors == [type : ParamTypes, enum : ParamEnums, description : BOOLEAN]

\* jsonSchema: properties and, when present, the required list.
InputSchemas ==
    {js \in [properties : [ParamNames -> ParamDescriptors],
             hasRequired : BOOLEAN, required : SUBSET ParamNames] :
        ~js.hasRequired => js.required = {}}

\* jsonSchema.required || []
RequiredOf(jsonSchema) == IF jsonSchema.hasRequired THEN jsonSchema.required ELSE {}

\* A zod type: z.enum(values), z.string(), z.number(), z.boolean() or z.any(),
\* with .describe() and .optional() applied or not.
ZodType(kind, values, described, optional) ==
    [kind |-> kind, values |-> values, described |-> described, optional |-> optional]

\* Mutant of zodTypeOf: an enumerated string parameter becomes z.string().
zodTypeOf_EnumIgnored(prop) ==
    CASE prop.type = "string" -> "string"
      [] prop.type = "number" -> "number"
      [] prop.type = "boolean" -> "boolean"
      [] OTHER -> "any"

\* The switch over prop.type.
zodTypeOf(prop) ==
    CASE prop.type = "string" -> IF Truthy(prop.enum) THEN "enum" ELSE "string"
      [] prop.type = "number" -> "number"
      [] prop.type = "boolean" -> "boolean"
      [] OTHER -> "any"

\* The body of the loop over Object.entries(properties).
zodProp(key, prop, required) ==
    ZodType(zodTypeOf(prop),
            IF zodTypeOf(prop) = "enum" THEN prop.enum.v ELSE <<>>,
            prop.description,
            key \notin required)

jsonSchemaToZod(jsonSchema) ==
    [key \in ParamNames |->
        zodProp(key, jsonSchema.properties[key], RequiredOf(jsonSchema))]

NotTranslated ==
    [done |-> FALSE, shape |-> [key \in ParamNames |-> ZodType("none", <<>>, FALSE, FALSE)]]

InitSchema ==
    /\ ServerStarted
    /\ arg \in InputSchemas
    /\ res = NotTranslated

Translate ==
    /\ ~res.done
    /\ res' = [done |-> TRUE, shape |-> jsonSchemaToZod(arg)]
    /\ UNCHANGED <<runVars, storeVars, arg>>

NextSchema == Translate

SpecSchema == InitSchema /\ [][NextSchema]_vars

----------------------------------------------------------------------------
\* SpecExtract: text extraction applied to one chunk, for every combination of
\* the fields the function reads.

\* chunk.content: absent, an empty or non-empty string, a list that is empty,
\* holds a part without text, or holds a part with text.
ChunkContents ==
    {NoContent, StringContent(<<>>), StringContent(<<"c">>), ArrayContent(<<>>),
     ArrayContent(<<ObjectPart(<<>>, <<>>)>>),
     ArrayContent(<<StringPart(<<"p">>), ObjectPart(<<>>, <<"q">>)>>)}

\* chunk.text
ChunkTexts == {<<>>, <<"t">>}

\* chunk.kwargs, chunk.lc_kwargs, chunk.message
KwargsWrappers ==
    {NoWrapper, Wrapper(NoContent), Wrapper(StringContent(<<"k">>)),
     Wrapper(ArrayContent(<<ObjectPart(<<>>, <<>>)>>)),
     Wrapper(ArrayContent(<<ObjectPart(<<"r">>, <<>>)>>))}

LcKwargsWrappers ==
    {NoWrapper, Wrapper(StringContent(<<"l">>)),
     Wrapper(ArrayContent(<<ObjectPart(<<"s">>, <<>>)>>))}

MessageWrappers == {NoWrapper, Wrapper(StringContent(<<"m">>))}

Chunks ==
    {NullChunk} \cup
    {Chunk(content, text, kwargs, lc_kwargs, message) :
        content \in ChunkContents, text \in ChunkTexts, kwargs \in KwargsWrappers,
        lc_kwargs \in LcKwargsWrappers, message \in MessageWrappers}

NotExtracted == [done |-> FALSE, text |-> <<>>]

InitExtract ==
    /\ ServerStarted
    /\ arg \in Chunks
    /\ res = NotExtracted

Extract ==
    /\ ~res.done
    /\ res' = [done |-> TRUE, text |-> extractTextFromChunk(arg)]
    /\ UNCHANGED <<runVars, storeVars, arg>>

NextExtract == Extract

SpecExtract == InitExtract /\ [][NextExtract]_vars

----------------------------------------------------------------------------
\* SpecStore: several connections, the clock their identifiers come from, and
\* the sessions Map.  A session object is known by the connection whose
\* handler made it; a history entry by the connection whose turn pushed it.

\* The clock readings at which something happens: the start, one millisecond
\* later, and the same two instants one identifier period later.
ClockReadings == {0, 1, IdPeriod, IdPeriod + 1}

\* Date.now().toString().slice(-6)
sessionId(ms) == ms % IdPeriod

\* sessions.set(key, object)
MapSet(map, key, object) ==
    [k \in DOMAIN map \cup {key} |-> IF k = key THEN object ELSE map[k]]

\* sessions.delete(key)
MapDelete(map, key) == [k \in DOMAIN map \ {key} |-> map[k]]

\* sessions.get(key): 0 stands for undefined
MapGet(map, key) == IF key \in DOMAIN map THEN map[key] ELSE 0

\* Time passes.
Tick(reading) ==
    /\ reading > now
    /\ now' = reading
    /\ UNCHANGED <<turnVars, conns, store, hist, held, phase>>

\* wss.on("connection"): sessions.set(sessionId, {chatHistory: [], ws})
onConnection(c) ==
    /\ proc = "listening"
    /\ conns[c].state = "NONE"
    /\ conns' = [conns EXCEPT ![c] = [state |-> "OPEN", id |-> sessionId(now)]]
    /\ store' = MapSet(store, sessionId(now), c)
    /\ UNCHANGED <<turnVars, now, hist, held, phase>>

\* ws.on("close"): sessions.delete(sessionId)
onClose(c) ==
    /\ conns[c].state = "OPEN"
    /\ conns' = [conns EXCEPT ![c].state = "CLOSED"]
    /\ store' = MapDelete(store, conns[c].id)
    /\ UNCHANGED <<turnVars, now, hist, held, phase>>

\* ws.on("message"), chat: const session = sessions.get(sessionId), then
\* chat_history: session.chatHistory, which throws when session is undefined.
onMessage(c) ==
    /\ conns[c].state = "OPEN"
    /\ phase[c] # "running"
    /\ \A o \in Conns : Len(hist[o]) < 2 * MaxStoreTurns
    /\ held' = [held EXCEPT ![c] = MapGet(store, conns[c].id)]
    /\ phase' = [phase EXCEPT ![c] =
                    IF MapGet(store, conns[c].id) = 0 THEN "failed" ELSE "running"]
    /\ UNCHANGED <<turnVars, now, conns, store, hist>>

\* The end of the turn: session.chatHistory.push(...) twice and the truncation,
\* on the session object fetched when the message arrived.
onTurnEnd(c) ==
    /\ phase[c] = "running"
    /\ hist' = [hist EXCEPT ![held[c]] =
                    keepRecent(Append(Append(@, HumanMessage(c)), AIMessage(c)))]
    /\ phase' = [phase EXCEPT ![c] = "idle"]
    /\ held' = [held EXCEPT ![c] = 0]
    /\ UNCHANGED <<turnVars, now, conns, store>>

NextStore ==
    \/ \E reading \in ClockReadings : Tick(reading)
    \/ \E c \in Conns : onConnection(c)
    \/ \E c \in Conns : onClose(c)
    \/ \E c \in Conns : onMessage(c)
    \/ \E c \in Conns : onTurnEnd(c)

SpecStore == Init /\ [][NextStore]_vars

----------------------------------------------------------------------------
\* Reading the record of a turn.

IsNullThinking(e) == e.type = "thinking" /\ e.status = NULL

IsTerminal(e) == e.type \in {"stream_end", "error"}

OfType(log, type) == SelectSeq(log, LAMBDA e : e.type = type)

NullThinkings(log) == SelectSeq(log, IsNullThinking)

\* The concatenation of the contents of the stream events of a record.
StreamedText(log) ==
    LET streams == OfType(log, "stream")
    IN  Flatten([i \in 1..Len(streams) |-> streams[i].content.v])

\* The turn of slot t ran its loop to the end (stream_end was sent) and no
\* exception was caught afterwards.
CompletedWithoutException(t) ==
    /\ pc[t] = "done"
    /\ OfType(TurnLog(t), "stream_end") # <<>>
    /\ OfType(TurnLog(t), "error") = <<>>

----------------------------------------------------------------------------
\* C1: in every turn, whichever way it ends (tokens streamed, zero-token
\* fallback, exception), a finished turn has sent stream_end or error, and the
\* last of these is followed by exactly one event, thinking(null), which is
\* the last event of the turn.
C1_ClearIsLastEvent ==
    \A t \in Slots :
        LET log == TurnLog(t)
        IN  /\ pc[t] = "done" => \E k \in 1..Len(log) : IsTerminal(log[k])
            /\ \A k \in 1..Len(log) :
                   (IsTerminal(log[k]) /\ \A j \in (k + 1)..Len(log) : ~IsTerminal(log[j]))
                   => (Len(log) = k + 1 /\ IsNullThinking(log[k + 1]))

\* A turn that streamed text and then failed: stream events, error, thinking(null).
C1_Witness ==
    /\ pc[1] = "done"
    /\ OfType(TurnLog(1), "stream") # <<>>
    /\ OfType(TurnLog(1), "error") # <<>>
    /\ IsNullThinking(TurnLog(1)[Len(TurnLog(1))])

----------------------------------------------------------------------------
\* C2 as stated: counted over a whole finished turn, exactly one
\* thinking(null) event is emitted.
C2_ExactlyOneClearPerTurn ==
    \A t \in Slots : pc[t] = "done" => Len(NullThinkings(TurnLog(t))) = 1

\* C2 amended: a turn emits thinking(null) once at its end and, when it
\* streams text, once more at stream start: one such event in a finished turn
\* without stream events, two in a finished turn with stream events, and
\* before the end of the turn none or one accordingly.
C2_ClearAtStreamStartAndAtEnd ==
    \A t \in Slots :
        pc[t] # "idle" =>
            Len(NullThinkings(TurnLog(t))) =
                (IF OfType(TurnLog(t), "stream") # <<>> THEN 1 ELSE 0)
                + (IF pc[t] = "done" THEN 1 ELSE 0)

\* A finished turn with two stream events and two thinking(null) events.
C2_Witness ==
    /\ pc[1] = "done"
    /\ Len(OfType(TurnLog(1), "stream")) = 2
    /\ Len(NullThinkings(TurnLog(1))) = 2

----------------------------------------------------------------------------
\* C3: at most one map_action event is emitted per turn, for any number of
\* tool calls returning a mapAction and any order of the tool-end callback and
\* the on_tool_end event.
C3_AtMostOneMapAction ==
    \A t \in Slots : Len(OfType(TurnLog(t), "map_action")) <= 1

----------------------------------------------------------------------------
\* C4: the mapAction carried by stream_end equals the mapAction of the first
\* map_action event of the turn, and is null exactly when the turn sent no
\* map_action event.
C4_StreamEndCarriesFirstMapAction ==
    \A t \in Slots :
        LET log == TurnLog(t)
            sentActions == OfType(log, "map_action")
        IN  \A k \in 1..Len(log) :
                log[k].type = "stream_end" =>
                    IF sentActions = <<>>
                    THEN log[k].mapAction = NULL
                    ELSE log[k].mapAction = sentActions[1].mapAction

----------------------------------------------------------------------------
\* Each channel has reported every fragment the model produced, or none.
EachChannelAllOrNothing(t) ==
    /\ tokPos[t].cb \in {0, Len(frags[t])}
    /\ tokPos[t].ev \in {0, Len(frags[t])}

\* C5: when the fragments of a turn, whose concatenation is T, have been
\* delivered through the token callback, the on_chat_model_stream events, or
\* both in any interleaving, and the turn has sent stream_end, the contents of
\* the stream events of the turn concatenate to exactly T.
C5_StreamsConcatenateToText ==
    \A t \in Slots :
        (/\ pc[t] = "done"
         /\ OfType(TurnLog(t), "stream_end") # <<>>
         /\ EachChannelAllOrNothing(t))
        => StreamedText(TurnLog(t)) = Flatten(frags[t])

----------------------------------------------------------------------------
\* The text streamed before position k of a record.
StreamedBefore(log, k) == StreamedText(SubSeq(log, 1, k - 1))

----------------------------------------------------------------------------
\* The step in which the turn of slot t ends in the catch block without having
\* sent stream_end: createAgent, streamEvents or the stream raised.
FailsWhileDriving(t) ==
    /\ pc'[t] = "done"
    /\ turnsFailed' = turnsFailed + 1
    /\ OfType(TurnLog(t)', "stream_end") = <<>>

\* C7: an exception raised while driving a turn yields exactly one error event
\* with the fixed text; the step leaves the connection open and the session in
\* the store; and after a failed turn the open connection accepts the next
\* chat message (up to the bound MaxTurns on messages).
C7_FailureIsPerTurn ==
    /\ [][\A t \in Slots :
            FailsWhileDriving(t) =>
                /\ Len(OfType(TurnLog(t)', "error")) = 1
                /\ OfType(TurnLog(t)', "error")[1].content = Str(<<ErrorText>>)
                /\ wsState' = wsState
                /\ sessions' = sessions
         ]_vars
    /\ [](\A t \in SerialSlots :
            (/\ turnsFailed > 0
             /\ pc[t] = "done"
             /\ wsState = "OPEN"
             /\ turnsStarted < MaxTurns)
            => /\ SessionId \in sessions
               /\ ENABLED (\E content \in UserMessages : ReceiveChat(t, content, MaxTurns)))

\* After a failed turn, a later turn on the same connection has run to its
\* stream_end without an error event and its exchange is in the history.
C7_Witness ==
    /\ turnsFailed = 1
    /\ turnsStarted = 2
    /\ wsState = "OPEN"
    /\ CompletedWithoutException(1)
    /\ OfType(TurnLog(1), "stream") # <<>>
    /\ Len(chatHistory) >= 2
    /\ chatHistory[Len(chatHistory)] = AIMessage(fullResponse[1])

----------------------------------------------------------------------------
\* The n most recent entries of h, in order.
LastN(h, n) == IF Len(h) > n THEN SubSeq(h, Len(h) - n + 1, Len(h)) ELSE h

\* C8: when no turn is in flight, the stored history holds at most W = 20
\* entries, and once more than W entries have been appended it holds exactly
\* the W most recently appended ones in their original order.
C8_HistoryIsLastWindow ==
    (\A t \in Slots : pc[t] \in {"idle", "done"}) =>
        /\ Len(chatHistory) <= HistoryLimit
        /\ Len(allAppended) > HistoryLimit
           => chatHistory = LastN(allAppended, HistoryLimit)

----------------------------------------------------------------------------
\* The step in which the turn of slot t runs to its end without exception.
CompletesWithoutException(t) ==
    /\ pc[t] \in {"streaming", "draining"}
    /\ CompletedWithoutException(t)'

\* C9 as stated: on such a step the history becomes the old history, then the
\* user message, then the response if it is non-empty, cut to the window.
C9_AppendsUserThenNonEmptyResponse ==
    [][\A t \in Slots :
          CompletesWithoutException(t) =>
              chatHistory' =
                  LastN(chatHistory \o <<HumanMessage(userMessage[t])>>
                            \o (IF fullResponse[t] # Str(<<>>)
                                THEN <<AIMessage(fullResponse[t])>>
                                ELSE <<>>),
                        HistoryLimit)
      ]_vars

\* C9 amended: on such a step the history becomes the old history, then the
\* user message if it is a non-blank string, then the response if it is
\* non-blank, cut to the window after both; the response entry is the content
\* of the stream_end event of the turn.
C9_AppendsNonBlankUserThenNonBlankResponse ==
    [][\A t \in Slots :
          CompletesWithoutException(t) =>
              LET end == OfType(TurnLog(t)', "stream_end")[1]
                  user == IF IsString(userMessage[t]) /\ TrimNonEmpty(userMessage[t].v)
                          THEN <<[role |-> "user", content |-> userMessage[t]]>>
                          ELSE <<>>
                  assistant == IF IsString(end.content) /\ TrimNonEmpty(end.content.v)
                               THEN <<[role |-> "assistant", content |-> end.content]>>
                               ELSE <<>>
              IN  /\ chatHistory' = LastN(chatHistory \o user \o assistant, HistoryLimit)
                  /\ allAppended' = allAppended \o user \o assistant
      ]_vars

\* A turn has completed, its message and its response are the two newest
\* entries, and the window has cut older ones.
C9_Witness ==
    /\ CompletedWithoutException(1)
    /\ Len(allAppended) > HistoryLimit
    /\ Len(chatHistory) = HistoryLimit
    /\ chatHistory[HistoryLimit - 1] = HumanMessage(userMessage[1])
    /\ chatHistory[HistoryLimit] = AIMessage(fullResponse[1])

----------------------------------------------------------------------------
\* The turn made one tool call, its result carries a mapAction, and each
\* channel has reported the call completely or not at all.
OneToolCallWithMapAction(t) ==
    /\ Len(calls[t]) = 1
    /\ ParsedMapAction(calls[t][1].output) # NULL
    /\ toolPos[t].cb \in {0, 2}
    /\ toolPos[t].ev \in {0, 2}
    /\ toolPos[t].cb + toolPos[t].ev > 0

\* The events of a record other than stream and thinking(null), without the
\* sent flag.
Milestones(log) ==
    LET kept == SelectSeq(log, LAMBDA e : e.type # "stream" /\ ~IsNullThinking(e))
    IN  [i \in 1..Len(kept) |->
            [type |-> kept[i].type, status |-> kept[i].status,
             mapAction |-> kept[i].mapAction]]

\* C10: in a completed turn with one tool call whose result carries a
\* mapAction, the events other than stream and thinking(null) are, in order,
\* thinking("Thinking..."), thinking("Using <tool>..."), map_action,
\* thinking("Generating response..."), stream_end.
C10_ToolTurnEventOrder ==
    \A t \in Slots :
        (CompletedWithoutException(t) /\ OneToolCallWithMapAction(t)) =>
            LET ma == ParsedMapAction(calls[t][1].output)
            IN  Milestones(TurnLog(t)) =
                    << [type |-> "thinking", status |-> ThinkingText, mapAction |-> NULL],
                       [type |-> "thinking", status |-> UsingText(calls[t][1].name),
                        mapAction |-> NULL],
                       [type |-> "map_action", status |-> NULL, mapAction |-> ma],
                       [type |-> "thinking", status |-> GeneratingText, mapAction |-> NULL],
                       [type |-> "stream_end", status |-> NULL, mapAction |-> ma] >>

----------------------------------------------------------------------------
\* Channel ch reports, in this step, the end of a tool call of slot t that
\* failed in the tool server.
ReportsFailedTool(t, ch) ==
    /\ toolPos[t][ch] % 2 = 1
    /\ toolPos'[t][ch] = toolPos[t][ch] + 1
    /\ calls[t][(toolPos[t][ch] + 1) \div 2].output = ToolErrorBody

\* A tool call of slot t failed in the tool server and its end was reported.
FailedToolReported(t) ==
    \E i \in 1..Len(calls[t]) :
        /\ calls[t][i].output = ToolErrorBody
        /\ \E ch \in {"cb", "ev"} : toolPos[t][ch] >= 2 * i

\* C11: a tool call that fails inside the tool server reaches the handler as
\* an ordinary tool result: the step that reports its end adds no error event
\* and no map_action and leaves the turn running; and a turn in which no
\* exception was caught ends with stream_end and has no error event.
C11_ToolFailureIsNotAProtocolError ==
    /\ [][\A t \in Slots : \A ch \in {"cb", "ev"} :
            ReportsFailedTool(t, ch) =>
                /\ OfType(TurnLog(t)', "error") = OfType(TurnLog(t), "error")
                /\ OfType(TurnLog(t)', "map_action") = OfType(TurnLog(t), "map_action")
                /\ mapAction'[t] = mapAction[t]
                /\ pc'[t] = "streaming"
         ]_vars
    /\ [](\A t \in Slots :
            (pc[t] = "done" /\ FailedToolReported(t) /\ turnsFailed = 0) =>
                /\ OfType(TurnLog(t), "error") = <<>>
                /\ Len(OfType(TurnLog(t), "stream_end")) = 1
                /\ TurnLog(t)[Len(TurnLog(t)) - 1].type = "stream_end")

\* A turn whose only tool call failed in the tool server, reported on both
\* channels, has ended with stream_end, without map action and without error.
C11_Witness ==
    /\ CompletedWithoutException(1)
    /\ Len(calls[1]) = 1
    /\ calls[1][1].output = ToolErrorBody
    /\ toolPos[1] = [cb |-> 2, ev |-> 2]
    /\ OfType(TurnLog(1), "stream_end")[1].mapAction = NULL
    /\ \E k \in 1..Len(TurnLog(1)) : TurnLog(1)[k].status = GeneratingText

----------------------------------------------------------------------------
\* C12: once the connection has closed, the store holds no session for it, and
\* every step taken afterwards, by a turn still in flight included, only adds
\* wsSend calls that send nothing; the turn goes on to its end.
C12_ClosedConnectionGetsNothing ==
    /\ [](wsState = "CLOSED" => SessionId \notin sessions)
    /\ [][wsState = "CLOSED" =>
            /\ wsState' = "CLOSED"
            /\ Len(out') >= Len(out)
            /\ SubSeq(out', 1, Len(out)) = out
            /\ \A k \in (Len(out) + 1)..Len(out') : ~out'[k].sent
         ]_vars

\* The connection closed while the turn was streaming: its first events were
\* sent, a later stream event and stream_end were not, and the turn has ended
\* without an error event.
C12_Witness ==
    /\ wsState = "CLOSED"
    /\ SessionId \notin sessions
    /\ CompletedWithoutException(1)
    /\ TurnLog(1)[1].sent
    /\ \E k \in 1..Len(TurnLog(1)) :
          TurnLog(1)[k].type = "stream" /\ TurnLog(1)[k].sent
    /\ \E k \in 1..Len(TurnLog(1)) :
          TurnLog(1)[k].type = "stream" /\ ~TurnLog(1)[k].sent
    /\ ~OfType(TurnLog(1), "stream_end")[1].sent
    /\ ~TurnLog(1)[Len(TurnLog(1))].sent

----------------------------------------------------------------------------
\* C13: two connections open at the same time never share an identifier;
\* every open connection has, under its identifier, the session object made
\* for it; a turn works on the session object of its own connection, so that
\* every entry of a session's history was pushed by a turn of its connection.
C13_SessionPerConnection ==
    /\ \A c, d \in Conns :
          (c # d /\ conns[c].state = "OPEN" /\ conns[d].state = "OPEN")
              => conns[c].id # conns[d].id
    /\ \A c \in Conns :
          conns[c].state = "OPEN" => MapGet(store, conns[c].id) = c
    /\ \A c \in Conns : phase[c] = "running" => held[c] = c
    /\ \A c \in Conns : phase[c] # "failed"
    /\ \A o \in Conns : \A k \in 1..Len(hist[o]) : hist[o][k].content = o

----------------------------------------------------------------------------
\* C14: the events of different turns of a session are not interleaved: in
\* the order of emission, the events of a turn are consecutive, so that every
\* event of an earlier turn comes before any event of a later one.
C14_TurnsNotInterleaved ==
    \A i, k \in 1..Len(out) :
        (i < k /\ out[i].turn # 0 /\ out[i].turn = out[k].turn)
            => \A j \in i..k : out[j].turn = out[i].turn

----------------------------------------------------------------------------
\* C15: the first event of every chat turn is thinking("Thinking..."), and no
\* later event of the turn is; while the agent has been created but not yet
\* driven it is the only event of the turn.
C15_ThinkingIsFirstEvent ==
    \A t \in Slots :
        LET log == TurnLog(t)
        IN  /\ pc[t] # "idle" =>
                /\ log # <<>>
                /\ log[1].type = "thinking"
                /\ log[1].status = ThinkingText
                /\ \A k \in 2..Len(log) : log[k].status # ThinkingText
            /\ pc[t] = "opening" => Len(log) = 1
            /\ pc[t] = "idle" => log = <<>>

\* A turn that used a tool and streamed text has ended; "Thinking..." was its
\* first event and reached the socket.
C15_Witness ==
    /\ pc[1] = "done"
    /\ TurnLog(1)[1].status = ThinkingText
    /\ TurnLog(1)[1].sent
    /\ OfType(TurnLog(1), "stream") # <<>>
    /\ OfType(TurnLog(1), "map_action") # <<>>
    /\ OfType(TurnLog(1), "stream_end") # <<>>

----------------------------------------------------------------------------
\* C16: every stream event has non-empty content; the first stream event of a
\* turn comes immediately after a thinking(null), no later stream event does,
\* and that thinking(null) is the only one up to the last stream event.
C16_ClearOnceAtStreamStart ==
    \A t \in Slots :
        LET log == TurnLog(t)
            isStream(k) == log[k].type = "stream"
        IN  \A k \in 1..Len(log) :
                isStream(k) =>
                    /\ log[k].content.v # <<>>
                    /\ k > 1
                    /\ IsNullThinking(log[k - 1])
                           <=> (\A j \in 1..(k - 1) : ~isStream(j))
                    /\ Len(NullThinkings(SubSeq(log, 1, k))) = 1

\* Text was streamed on both channels, first by the event feed, and the empty
\* fragment of a tool-call chunk was reported too.
C16_Witness ==
    /\ pc[1] = "done"
    /\ Len(OfType(TurnLog(1), "stream")) >= 2
    /\ tokPos[1].ev >= 1
    /\ tokPos[1].cb >= 2
    /\ Len(frags[1]) >= 2
    /\ frags[1][1] = <<>>
    /\ toolPos[1].cb = 0

----------------------------------------------------------------------------
\* C17: in a turn that ended without exception and emitted no stream event,
\* if the root chain end carried an output, the content of stream_end is that
\* output; and the chain end of a turn that has streamed text leaves the
\* accumulated text as it is, whatever output it carries.
C17_FallbackOnlyWhenNothingStreamed ==
    /\ [](\A t \in Slots :
            (/\ CompletedWithoutException(t)
             /\ OfType(TurnLog(t), "stream") = <<>>
             /\ Truthy(finalOutput[t]))
            => OfType(TurnLog(t), "stream_end")[1].content = finalOutput[t])
    /\ [][\A t \in Slots :
            (/\ pc[t] = "streaming"
             /\ pc'[t] = "draining"
             /\ OfType(TurnLog(t), "stream") # <<>>)
            => /\ fullResponse'[t] = fullResponse[t]
               /\ fullResponse'[t] = Str(StreamedText(TurnLog(t)))
         ]_vars

\* A turn in which only empty fragments arrived has ended with the fallback
\* output as the content of stream_end.
C17_Witness ==
    /\ CompletedWithoutException(1)
    /\ tokPos[1].cb + tokPos[1].ev >= 2
    /\ OfType(TurnLog(1), "stream") = <<>>
    /\ finalOutput[1] = Str(<<"o", "k">>)
    /\ OfType(TurnLog(1), "stream_end")[1].content = Str(<<"o", "k">>)

----------------------------------------------------------------------------
\* C18: in every turn that emitted at least one stream event, the content of
\* stream_end is the concatenation, in emission order, of the contents of the
\* turn's stream events.
C18_StreamEndIsStreamedText ==
    \A t \in Slots :
        LET log == TurnLog(t)
        IN  (OfType(log, "stream") # <<>> /\ OfType(log, "stream_end") # <<>>)
                => OfType(log, "stream_end")[1].content = Str(StreamedText(log))

\* Both channels forwarded text, the root chain end carried another text, and
\* stream_end was sent.
C18_Witness ==
    /\ pc[1] = "done"
    /\ tokPos[1].cb >= 1
    /\ tokPos[1].ev >= 1
    /\ Len(OfType(TurnLog(1), "stream")) >= 3
    /\ finalOutput[1] = Str(<<"o", "k">>)
    /\ Len(OfType(TurnLog(1), "stream_end")) = 1

----------------------------------------------------------------------------
\* C19: the server listens only after connecting to the tool server and
\* listing its tools have both succeeded; when either fails the process exits
\* and stays so, without a connection or a turn ever; a connection or a turn
\* exists only in a listening process that holds the listed tools.
C19_ListensOnlyAfterToolsLoaded ==
    /\ [](proc \in {"connecting", "listing", "exited"} =>
            /\ wsState = "NONE"
            /\ turnsStarted = 0
            /\ out = <<>>)
    /\ [](proc = "listening" => mcpTools = ServerTools /\ listCalls = 1)
    /\ [][/\ proc = "exited" => proc' = "exited"
          /\ (proc # "listening" /\ proc' = "listening") => proc = "listing"
          /\ (proc # "listing" /\ proc' = "listing") => proc = "connecting"
         ]_vars

\* Listing the tools failed after the connection had succeeded: the process
\* has exited with no connection and no tools.
C19_Witness ==
    /\ proc = "exited"
    /\ listCalls = 1
    /\ mcpTools = <<>>
    /\ wsState = "NONE"

----------------------------------------------------------------------------
\* C20: the tool list is requested at most once, and exactly once in a
\* listening process; once the server listens, no step of a connection, a turn
\* or a tool call changes mcpTools or requests the list again; the agent of
\* every turn is built with the tools of mcpTools.
C20_ToolsLoadedOnce ==
    /\ [](listCalls <= 1)
    /\ [](proc = "listening" => listCalls = 1)
    /\ [](\A t \in Slots : pc[t] # "idle" => agentTools[t] = ServerTools)
    /\ [][proc = "listening" =>
            /\ mcpTools' = mcpTools
            /\ listCalls' = listCalls
            /\ \A t \in Slots : pc'[t] # "idle" => agentTools'[t] = mcpTools
         ]_vars

\* The second turn of the connection has ended after a tool call; its agent
\* had the tools listed at startup.
C20_Witness ==
    /\ proc = "listening"
    /\ listCalls = 1
    /\ turnsStarted = 2
    /\ pc[1] = "done"
    /\ toolPos[1].cb = 2
    /\ agentTools[1] = mcpTools
    /\ mcpTools = ServerTools

----------------------------------------------------------------------------
\* C21: a tool invocation never raises out of the tool func; when the tool
\* server reported a failure, or the call to it failed or came back without
\* text content, the func returns a body that has an error field.
C21_ToolFuncNeverThrows ==
    res.done =>
        /\ ~res.throws
        /\ (arg.reply.isError \/ arg.transport # "delivered") => HasError(res.value)

----------------------------------------------------------------------------
\* C22: for every tool name and every answer of the provider, the handler
\* returns one text whose body has a result field and no error field, or an
\* error field and no result field; the failures are exactly the unknown
\* name and the provider calls that throw.
C22_ReplyIsResultOrError ==
    arg.stage # "called" =>
        /\ HasResult(arg.reply.text) # HasError(arg.reply.text)
        /\ HasError(arg.reply.text) = arg.reply.isError
        /\ HasError(arg.reply.text) <=>
              (arg.name = "unknown_tool" \/ provider(arg.name, arg.response) = "throws")
        /\ HasResult(arg.reply.text) =>
              arg.reply.text.mapAction \in {NULL, "SHOW_MARKERS", "SHOW_ROUTE"}

\* The handler was asked for a tool it does not know and replied with an
\* error body.
C22_Witness ==
    /\ arg.stage = "replied"
    /\ arg.name = "unknown_tool"
    /\ arg.response = "data"
    /\ HasError(arg.reply.text)
    /\ ~HasResult(arg.reply.text)

----------------------------------------------------------------------------
\* C23: for every declared parameter, a type the translation does not know
\* becomes an unconstrained any type, a string parameter with a list of
\* enumerated values becomes an enumeration of exactly those values, and the
\* parameter is optional exactly when its name is not in the required list.
C23_SchemaTranslation ==
    res.done =>
        \A key \in ParamNames :
            LET prop == arg.properties[key]
                zod == res.shape[key]
            IN  /\ prop.type \notin {"string", "number", "boolean"} =>
                      zod.kind = "any"
                /\ (prop.type = "string" /\ prop.enum # Undefined) =>
                      (zod.kind = "enum" /\ zod.values = prop.enum.v)
                /\ zod.optional <=>
                      (~arg.hasRequired \/ key \notin arg.required)

\* A schema was translated in which "mode" is a required string with
\* enumerated values and "radius" has an unknown type and is not required.
C23_Witness ==
    /\ res.done
    /\ arg.properties["mode"].type = "string"
    /\ arg.properties["mode"].enum = List(<<"driving", "walking">>)
    /\ arg.hasRequired /\ arg.required = {"mode"}
    /\ arg.properties["radius"].type = "integer"
    /\ res.shape["mode"] = ZodType("enum", <<"driving", "walking">>, arg.properties["mode"].description, FALSE)
    /\ res.shape["radius"].kind = "any"
    /\ res.shape["radius"].optional

----------------------------------------------------------------------------
\* The chunk shapes of text extraction and the text each one carries.

Shapes == {"content", "parts", "kwargs", "lc_kwargs", "message", "text"}

\* The text a wrapper object carries: its string content, or the joined text
\* of its list of parts.
WrapperText(w) ==
    IF ~w.present THEN <<>>
    ELSE IF w.content.k = "string" THEN w.content.s
    ELSE IF w.content.k = "array" THEN JoinParts(w.content.parts)
    ELSE <<>>

\* The text a chunk carries in one shape, <<>> when it has none there.  The
\* lc_kwargs and message wrappers are read for string content only.
ShapeText(chunk, shape) ==
    CASE chunk.nullish -> <<>>
      [] shape = "content" ->
            IF chunk.content.k = "string" THEN chunk.content.s ELSE <<>>
      [] shape = "parts" ->
            IF chunk.content.k = "array" THEN JoinParts(chunk.content.parts) ELSE <<>>
      [] shape = "text" -> chunk.text
      [] shape = "kwargs" -> WrapperText(chunk.kwargs)
      [] shape = "lc_kwargs" ->
            IF chunk.lc_kwargs.content.k = "string"
            THEN WrapperText(chunk.lc_kwargs) ELSE <<>>
      [] shape = "message" ->
            IF chunk.message.content.k = "string"
            THEN WrapperText(chunk.message) ELSE <<>>

\* The chunk has the shape: the field is there with something in it.  A
\* kwargs wrapper with a list of parts has the shape whatever the parts hold.
HasShape(chunk, shape) ==
    IF shape = "kwargs" /\ ~chunk.nullish
    THEN /\ ContentTruthy(chunk.kwargs)
         /\ chunk.kwargs.content.k = "array" => Len(chunk.kwargs.content.parts) > 0
    ELSE ShapeText(chunk, shape) # <<>>

\* The text of the first shape of the order that the chunk has.
RECURSIVE FirstShapeText(_, _)
FirstShapeText(chunk, order) ==
    IF order = <<>> THEN <<>>
    ELSE IF HasShape(chunk, Head(order)) THEN ShapeText(chunk, Head(order))
    ELSE FirstShapeText(chunk, Tail(order))

\* The order of the probes in the function.
ProbeOrder == <<"content", "parts", "text", "kwargs", "lc_kwargs", "message">>

\* The order with the top-level text field last.
TextLastOrder == <<"content", "parts", "kwargs", "lc_kwargs", "message", "text">>

----------------------------------------------------------------------------
\* C24: text extraction returns the text of a shape that yields non-empty
\* text whenever some shape does; a shape that is present but yields empty
\* text does not stop the probing, so the result is empty only when no shape
\* of the chunk yields text.
C24_EmptyOnlyWhenNoShapeYieldsText ==
    res.done =>
        /\ res.text # <<>> => \E shape \in Shapes : res.text = ShapeText(arg, shape)
        /\ res.text = <<>> => \A shape \in Shapes : ShapeText(arg, shape) = <<>>

----------------------------------------------------------------------------
\* C25: the shapes are probed in the order direct string content, list of
\* content parts, wrapper objects (kwargs, lc_kwargs, message) and last the
\* top-level text field, and a chunk with several shapes gives the text of
\* the earliest one in that order.
C25_TextFieldProbedLast ==
    res.done => res.text = FirstShapeText(arg, TextLastOrder)

\* C25 as the function does it: the shapes are probed in the order direct
\* string content, list of content parts, top-level text field, kwargs,
\* lc_kwargs, message, and a chunk with several shapes gives the text of the
\* earliest one in that order.
C25_TextFieldProbedThird ==
    res.done => res.text = FirstShapeText(arg, ProbeOrder)

\* A chunk with a text field and string content in all three wrappers was
\* extracted to the text field's text.
C25_Witness ==
    /\ res.done
    /\ arg = Chunk(NoContent, <<"t">>, Wrapper(StringContent(<<"k">>)),
                   Wrapper(StringContent(<<"l">>)), Wrapper(StringContent(<<"m">>)))
    /\ res.text = <<"t">>

----------------------------------------------------------------------------
\* The side action a tool output carries, NULL when it carries none.
SideActionOf(output) ==
    IF output.k = "json" /\ output.mapAction # NULL THEN output.mapAction ELSE NULL

\* C26: side-action extraction yields, for every tool output, the one side
\* action the output carries or none, the same each time it is applied, and
\* lets no exception escape; a turn whose tool outputs carry no side action
\* emits no map_action event, captures none and is not failed.
C26_SideActionExtractionIsTotal ==
    \A t \in SerialSlots :
        /\ \A i \in 1..Len(calls[t]) :
              ParsedMapAction(calls[t][i].output) = SideActionOf(calls[t][i].output)
        /\ (\A i \in 1..Len(calls[t]) : SideActionOf(calls[t][i].output) = NULL) =>
              /\ OfType(TurnLog(t), "map_action") = <<>>
              /\ OfType(TurnLog(t), "error") = <<>>
              /\ mapAction[t] = NULL

\* A turn whose only tool call returned the JSON document null, reported on
\* both channels, ended with stream_end and no map_action event.
C26_Witness ==
    /\ Len(calls[1]) = 1
    /\ calls[1][1].output = ToolOutput("jsonnull", NULL)
    /\ toolPos[1] = [cb |-> 2, ev |-> 2]
    /\ OfType(TurnLog(1), "stream_end") # <<>>
    /\ OfType(TurnLog(1), "map_action") = <<>>

----------------------------------------------------------------------------
\* C27: a mapAction whose type is none of SHOW_MARKERS, SHOW_ROUTE and CENTER
\* is not emitted as a map_action event and is not recorded as the turn's
\* captured side action.
C27_UnknownMapActionIgnored ==
    /\ \A t \in SerialSlots : mapAction[t] \in {NULL, "SHOW_MARKERS", "SHOW_ROUTE", "CENTER"}
    /\ \A i \in 1..Len(out) :
          out[i].type \in {"map_action", "stream_end"} =>
              out[i].mapAction \in {NULL, "SHOW_MARKERS", "SHOW_ROUTE", "CENTER"}

----------------------------------------------------------------------------
\* The step handles an inbound payload that starts no turn.
Drops == Len(dropped') = Len(dropped) + 1

Dropped == dropped'[Len(dropped')]

\* What a dropped payload must leave alone: the outbound events, the session
\* history and the session store.
SessionUntouched ==
    /\ out' = out
    /\ chatHistory' = chatHistory
    /\ allAppended' = allAppended
    /\ sessions' = sessions

\* C28: an inbound message that parses as JSON and whose type is not "chat"
\* produces no outbound event and leaves the session history and the session
\* store unchanged.
C28_NonChatMessageIgnored ==
    [][(Drops /\ Dropped.k # "text") => SessionUntouched]_vars

\* A message of type "ping" was handled in the middle of a turn.
C28_Witness ==
    /\ dropped # <<>>
    /\ dropped[Len(dropped)] = Payload("object", "ping")
    /\ pc[1] = "streaming"
    /\ wsState = "OPEN"

----------------------------------------------------------------------------
\* C29: an inbound payload that fails to parse produces no outbound event,
\* changes no session state and does not close the connection, and a chat
\* message that follows it on the connection is taken up as any other.
C29_UnparsablePayloadDropped ==
    /\ [][(Drops /\ Dropped.k = "text") =>
            (SessionUntouched /\ wsState' = wsState /\ pc' = pc)]_vars
    /\ [](( /\ dropped # <<>>
            /\ dropped[Len(dropped)].k = "text"
            /\ wsState = "OPEN"
            /\ pc[1] \in {"idle", "done"}
            /\ turnsStarted < InboundTurns )
          => ENABLED (\E content \in HistMessages : ReceiveChat(1, content, InboundTurns)))

\* After a payload that failed to parse, a chat message was received and its
\* turn ended with stream_end.
C29_Witness ==
    /\ dropped = <<Payload("text", NULL)>>
    /\ turnsStarted = 1
    /\ pc[1] = "done"
    /\ OfType(TurnLog(1), "stream_end") # <<>>
    /\ OfType(TurnLog(1), "error") = <<>>
    /\ wsState = "OPEN"

----------------------------------------------------------------------------
\* C30: a connection is sent one greeting of type "response", when it opens
\* and before every event of a turn, and no other event of that type.
C30_OneGreetingAtOpen ==
    /\ wsState = "NONE" => out = <<>>
    /\ wsState # "NONE" =>
          /\ out # <<>>
          /\ out[1] = [GreetingEvent EXCEPT !.sent = TRUE]
          /\ Len(OfType(out, "response")) = 1

\* The connection was greeted and has had a whole turn since.
C30_Witness ==
    /\ wsState = "OPEN"
    /\ Len(out) > 3
    /\ out[1].type = "response"
    /\ turnsStarted = InboundTurns
    /\ pc[1] = "done"

----------------------------------------------------------------------------
\* C31: while the server answers queries, the health query reports
\* mcpConnected true exactly when the connection to the tool server is
\* established.
C31_HealthReportsConnection ==
    proc = "listening" => (health.mcpConnected <=> mcpLink = "open")

----------------------------------------------------------------------------
\* The tool starts of the turn of slot t that have been reported on at least
\* one channel.
ToolStartsReported(t) ==
    LET cb == (toolPos[t].cb + 1) \div 2
        ev == (toolPos[t].ev + 1) \div 2
    IN  IF cb > ev THEN cb ELSE ev

IsUsing(e) == e.type = "thinking" /\ e.status \in {UsingText(name) : name \in TurnToolNames}

\* C32: every tool start of a turn produces exactly one thinking("Using
\* <tool name>...") event, whether it is reported by the callback, by the
\* on_tool_start event or by both in either order, and also when the same
\* tool is invoked again.
C32_OneUsingEventPerToolStart ==
    \A t \in SerialSlots :
        Len(SelectSeq(TurnLog(t), IsUsing)) = ToolStartsReported(t)

----------------------------------------------------------------------------
\* The tool ends of the turn of slot t that have been reported on at least
\* one channel.
ToolEndsReported(t) ==
    LET cb == toolPos[t].cb \div 2
        ev == toolPos[t].ev \div 2
    IN  IF cb > ev THEN cb ELSE ev

IsGenerating(e) == e.type = "thinking" /\ e.status = GeneratingText

\* C33: every tool end of a turn is followed by a thinking("Generating
\* response...") event, whether or not its result carried a side action and
\* whether or not one was captured earlier in the turn: a turn that has come
\* to its terminal event has sent one such event for each tool end, and none
\* of them before a map_action of the same tool end.
C33_GeneratingAfterEveryToolEnd ==
    \A t \in SerialSlots :
        /\ (\E i \in 1..Len(TurnLog(t)) : IsTerminal(TurnLog(t)[i])) =>
              Len(SelectSeq(TurnLog(t), IsGenerating)) >= ToolEndsReported(t)
        /\ \A i \in 1..Len(TurnLog(t)) :
              TurnLog(t)[i].type = "map_action" =>
                  i < Len(TurnLog(t)) /\ IsGenerating(TurnLog(t)[i + 1])

----------------------------------------------------------------------------
\* C34: every chat turn emits exactly one terminal result event, one
\* stream_end or one error and never both, for any user message content and
\* any final response value: never more than one, and one when the turn is
\* over.
C34_OneTerminalEvent ==
    \A t \in SerialSlots :
        /\ Len(SelectSeq(TurnLog(t), IsTerminal)) <= 1
        /\ (pc[t] = "done" /\ turnsStarted > 0) =>
              Len(SelectSeq(TurnLog(t), IsTerminal)) = 1

----------------------------------------------------------------------------
\* C35: a turn that ends with an error event leaves the chat history of the
\* session as it was when the turn began; the history is written only by the
\* step that ends the turn, so that step must leave it alone when it sends
\* the error event.
C35_FailedTurnLeavesHistory ==
    [][turnsFailed' = turnsFailed + 1 => chatHistory' = chatHistory]_vars

----------------------------------------------------------------------------
\* C36: after any sequence of turns the stored history is a sequence of user
\* entries each followed by at most one assistant entry: it does not begin
\* with an assistant entry and holds no two consecutive assistant entries.
C36_HistoryAlternates ==
    /\ chatHistory # <<>> => chatHistory[1].role = "user"
    /\ \A i \in 1..(Len(chatHistory) - 1) :
          ~(chatHistory[i].role = "assistant" /\ chatHistory[i + 1].role = "assistant")

----------------------------------------------------------------------------
\* The characters of the text the agent run of slot t has produced: its
\* fragments and the output its root run ended with.
OwnCharacters(t) ==
    {frags[t][i][j] : i \in 1..Len(frags[t]), j \in 1..1}
        \cup (IF IsString(finalOutput[t])
              THEN {finalOutput[t].v[j] : j \in 1..Len(finalOutput[t].v)} ELSE {})

\* The side actions the tool calls of the agent run of slot t returned.
OwnMapActions(t) ==
    {ParsedMapAction(calls[t][i].output) : i \in 1..Len(calls[t])}

OwnToolNames(t) == {calls[t][i].name : i \in 1..Len(calls[t])}

\* C37: with several turns in flight at once, the accumulated text, the
\* captured side action, the stream-started flag and the tool list of a turn
\* hold only what that turn's own agent run produced, and so do the content
\* and the mapAction of its stream_end.
C37_TurnStateIsOwn ==
    \A t \in Slots :
        /\ IsString(fullResponse[t])
        /\ \A j \in 1..Len(fullResponse[t].v) : fullResponse[t].v[j] \in OwnCharacters(t)
        /\ mapAction[t] \in {NULL} \cup OwnMapActions(t)
        /\ streamStarted[t] => frags[t] # <<>>
        /\ \A j \in 1..Len(toolsUsed[t]) : toolsUsed[t][j] \in OwnToolNames(t)
        /\ \A i \in 1..Len(TurnLog(t)) :
              TurnLog(t)[i].type = "stream_end" =>
                  /\ TurnLog(t)[i].content = fullResponse[t]
                  /\ TurnLog(t)[i].mapAction = mapAction[t]

\* Two turns in flight: the first captured the side action of its tool call,
\* took its text from the output of its root run and has ended; the second
\* has streamed its own token and is still running.
C37_Witness ==
    /\ pc[1] = "done"
    /\ pc[2] = "streaming"
    /\ fullResponse[1] = Str(<<"x">>)
    /\ fullResponse[2] = Str(<<"b">>)
    /\ mapAction[1] = "SHOW_MARKERS"
    /\ mapAction[2] = NULL
    /\ \E i \in 1..Len(TurnLog(1)) :
          /\ TurnLog(1)[i].type = "stream_end"
          /\ TurnLog(1)[i].content = Str(<<"x">>)
          /\ TurnLog(1)[i].mapAction = "SHOW_MARKERS"
    /\ \E i \in 1..Len(out) : out[i].turn = 2 /\ out[i].type = "stream"

----------------------------------------------------------------------------
\* The turn of slot t is over and the last thing its handler did was to send
\* the final thinking(null).
TurnOver(t) ==
    /\ pc[t] = "done"
    /\ TurnLog(t) # <<>>
    /\ IsNullThinking(TurnLog(t)[Len(TurnLog(t))])

\* C38: every started turn terminates: when the event feed ends or raises,
\* the turn comes to its final thinking(null), also when the client
\* disconnects while the turn runs.
C38_TurnTerminates ==
    \A t \in SerialSlots :
        (pc[t] \in {"opening", "streaming", "draining"}) ~> TurnOver(t)

\* The client disconnected while the turn was streaming, and the turn ran to
\* its final thinking(null), which was not sent.
C38_Witness ==
    /\ wsState = "CLOSED"
    /\ TurnOver(1)
    /\ ~TurnLog(1)[Len(TurnLog(1))].sent
    /\ \E i \in 1..Len(TurnLog(1)) : TurnLog(1)[i].type = "stream" /\ TurnLog(1)[i].sent

----------------------------------------------------------------------------
\* The browser client (App.jsx): the socket handlers and sendMessage.

\* Frames and sends the client handles in one run of SpecClient.
MaxFrames == 4

\* What JSON.parse(event.data) yields for a frame the server sent.
Frame(e) == [e EXCEPT !.turn = 0, !.sent = TRUE]

\* The frames wsSend of the server produces: the greeting, the statuses of a
\* turn, a fragment, an immediate map action, the stream_end of a streamed
\* turn, of a turn with an empty answer, of a turn answered by the final
\* output (text, or a value that is not text), and the error notice.
ClientFrames ==
    { Frame(GreetingEvent),
      Frame(ThinkingEvent(0, "Thinking...")),
      Frame(ThinkingEvent(0, NULL)),
      Frame(StreamEvent(0, <<"a">>)),
      Frame(StreamEvent(0, <<" ">>)),
      Frame(MapActionEvent(0, "SHOW_ROUTE")),
      Frame(StreamEndEvent(0, Str(<<"a">>), NULL)),
      Frame(StreamEndEvent(0, Str(<<>>), NULL)),
      Frame(StreamEndEvent(0, Str(<<"o", "k">>), "SHOW_MARKERS")),
      Frame(StreamEndEvent(0, NonString, NULL)),
      Frame(ErrorEvent(0)) }

\* What the user types into the chat form.
ClientInputs == {<<"h", "i">>}

\* The { type: 'chat', content } message of sendMessage, as a log entry.
ChatFrame(message) == Frame(Event(0, "chat", NULL, Str(message), NULL))

ClientMessage(role, content, isError) ==
    [role |-> role, content |-> content, isError |-> isError]

\* handleMapAction(action): the switch on action.type has no default case.
handleMapAction(state, action) ==
    CASE action = "SHOW_MARKERS" ->
             [state EXCEPT !.markers = "shown", !.route = "none"]
      [] action = "SHOW_ROUTE" ->
             [state EXCEPT !.markers = "none", !.route = "shown"]
      [] action = "CENTER" -> [state EXCEPT !.center = "moved"]
      [] OTHER -> state

\* const finalContent = streamingRef.current || data.content
FinalContent(ref, data) == IF ref # <<>> THEN Str(ref) ELSE data.content

\* socket.onopen
onopen ==
    /\ socket = "CONNECTING"
    /\ socket' = "OPEN"
    /\ UNCHANGED <<messages, thinkingStatus, streamingRef, streamingContent,
                   mapState, clientLog>>

\* socket.onclose
onclose ==
    /\ socket = "OPEN"
    /\ socket' = "CLOSED"
    /\ UNCHANGED <<messages, thinkingStatus, streamingRef, streamingContent,
                   mapState, clientLog>>

\* socket.onmessage for one frame.  In the stream_end case
\* finalContent?.trim() is evaluated before anything is written: when it
\* throws, the handler ends there and no state is set.
onmessage(data) ==
    /\ socket = "OPEN"
    /\ Len(clientLog) < MaxFrames
    /\ clientLog' = Append(clientLog, data)
    /\ CASE data.type = "response" ->
              /\ messages' = Append(messages,
                                    ClientMessage("assistant", data.content, FALSE))
              /\ mapState' = IF data.mapAction # NULL
                             THEN handleMapAction(mapState, data.mapAction)
                             ELSE mapState
              /\ UNCHANGED <<thinkingStatus, streamingRef, streamingContent>>
         [] data.type = "thinking" ->
              /\ thinkingStatus' = data.status
              /\ UNCHANGED <<messages, streamingRef, streamingContent, mapState>>
         [] data.type = "map_action" ->
              /\ mapState' = handleMapAction(mapState, data.mapAction)
              /\ UNCHANGED <<messages, thinkingStatus, streamingRef,
                             streamingContent>>
         [] data.type = "stream" ->
              /\ streamingRef' = streamingRef \o data.content.v
              /\ streamingContent' = streamingRef \o data.content.v
              /\ UNCHANGED <<messages, thinkingStatus, mapState>>
         [] data.type = "stream_end" ->
              LET finalContent == FinalContent(streamingRef, data) IN
              IF TrimThrows(finalContent)
              THEN UNCHANGED <<messages, thinkingStatus, streamingRef,
                               streamingContent, mapState>>
              ELSE /\ messages' =
                        IF TrimTruthy(finalContent)
                        THEN Append(messages,
                                    ClientMessage("assistant", finalContent, FALSE))
                        ELSE messages
                   /\ streamingRef' = <<>>
                   /\ streamingContent' = <<>>
                   /\ thinkingStatus' = NULL
                   /\ mapState' = IF data.mapAction # NULL
                                  THEN handleMapAction(mapState, data.mapAction)
                                  ELSE mapState
         [] data.type = "error" ->
              /\ messages' = Append(messages,
                                    ClientMessage("assistant", data.content, TRUE))
              /\ thinkingStatus' = NULL
              /\ streamingRef' = <<>>
              /\ streamingContent' = <<>>
              /\ UNCHANGED mapState
         [] OTHER ->
              UNCHANGED <<messages, thinkingStatus, streamingRef,
                          streamingContent, mapState>>
    /\ UNCHANGED socket

\* sendMessage(message), called by handleSubmit of the chat form, which
\* submits only when no status is shown and nothing is streaming.
sendMessage(message) ==
    /\ thinkingStatus = NULL
    /\ streamingContent = <<>>
    /\ socket = "OPEN"
    /\ Len(clientLog) < MaxFrames
    /\ messages' = Append(messages, ClientMessage("user", Str(message), FALSE))
    /\ streamingRef' = <<>>
    /\ streamingContent' = <<>>
    /\ clientLog' = Append(clientLog, ChatFrame(message))
    /\ UNCHANGED <<socket, thinkingStatus, mapState>>

serverVars == <<wsState, sessions, chatHistory, allAppended, out, turnsStarted,
                turnsFailed, pc, userMessage, handlerVars, agentVars, procVars,
                dropped, callVars, now, conns, store, hist, held, phase>>

NextClient ==
    \/ onopen /\ UNCHANGED serverVars
    \/ onclose /\ UNCHANGED serverVars
    \/ \E data \in ClientFrames : onmessage(data) /\ UNCHANGED serverVars
    \/ \E message \in ClientInputs : sendMessage(message) /\ UNCHANGED serverVars

SpecClient == Init /\ [][NextClient]_vars

\* The text of the stream frames handled since the buffer was last reset by a
\* sent chat message, a stream_end or an error.
RECURSIVE Accumulated(_)
Accumulated(log) ==
    IF log = <<>> THEN <<>>
    ELSE LET e == log[Len(log)]
             before == SubSeq(log, 1, Len(log) - 1) IN
         IF e.type \in {"chat", "stream_end", "error"} THEN <<>>
         ELSE IF e.type = "stream" THEN Accumulated(before) \o e.content.v
         ELSE Accumulated(before)

\* The frame the step handled, if the step is a run of onmessage.
Handled(type) ==
    /\ Len(clientLog') = Len(clientLog) + 1
    /\ clientLog'[Len(clientLog')].type = type

\* C39: on stream_end the client appends exactly one assistant message when
\* the final text is not blank, its content being the text accumulated from
\* the stream frames of the turn or, when none was accumulated, the content of
\* the stream_end frame; after stream_end or error the thinking status is
\* null and the streaming buffer is empty.
C39_ClientFinishesTurn ==
    [][ /\ Handled("stream_end") =>
            LET data == clientLog'[Len(clientLog')]
                final == IF Accumulated(clientLog) # <<>>
                         THEN Str(Accumulated(clientLog))
                         ELSE data.content IN
            /\ TrimTruthy(final) =>
                   messages' = Append(messages,
                                      ClientMessage("assistant", final, FALSE))
            /\ ~TrimTruthy(final) => messages' = messages
        /\ (Handled("stream_end") \/ Handled("error")) =>
            /\ thinkingStatus' = NULL
            /\ streamingRef' = <<>>
            /\ streamingContent' = <<>> ]_vars

----------------------------------------------------------------------------
\* The distance and duration helpers of the tool server.

\* Durations are whole seconds up to MaxSeconds; distances are given in tenths
\* of a metre, the precision of the routing service, up to MaxTenths.
MaxSeconds == 7200
MaxTenths == 10100

\* Math.round(n / d) for whole n >= 0 and d > 0: halves round up.
RoundDiv(n, d) == (2 * n + d) \div (2 * d)

Rendering(unit, hours, value, tenths) ==
    [unit |-> unit, hours |-> hours, value |-> value, tenths |-> tenths]

NotFormatted == Rendering("none", 0, 0, 0)

\* formatDistance(meters), meters = tenths / 10: `${Math.round(meters)} m`
\* below 1000, else `${(meters / 1000).toFixed(1)} km`, value.tenths here.
formatDistance(tenths) ==
    IF tenths < 10000
    THEN Rendering("m", 0, RoundDiv(tenths, 10), 0)
    ELSE LET km10 == RoundDiv(tenths, 1000) IN
         Rendering("km", 0, km10 \div 10, km10 % 10)

\* formatDuration(seconds)
formatDuration(seconds) ==
    IF seconds < 60 THEN Rendering("sec", 0, seconds, 0)
    ELSE IF seconds < 3600 THEN Rendering("min", 0, RoundDiv(seconds, 60), 0)
    ELSE LET hours == seconds \div 3600
             mins == RoundDiv(seconds % 3600, 60) IN
         Rendering("hr min", hours, mins, 0)

FormatInputs ==
    [fn : {"formatDuration"}, x : 0..MaxSeconds]
        \cup [fn : {"formatDistance"}, x : 0..MaxTenths]

InitFormat ==
    /\ ServerStarted
    /\ arg \in FormatInputs
    /\ res = NotFormatted

\* formatRoute renders route.duration and step.duration.
FormatDuration ==
    /\ arg.fn = "formatDuration"
    /\ res = NotFormatted
    /\ res' = formatDuration(arg.x)
    /\ UNCHANGED <<runVars, storeVars, arg>>

\* formatRoute renders route.distance and step.distance.
FormatDistance ==
    /\ arg.fn = "formatDistance"
    /\ res = NotFormatted
    /\ res' = formatDistance(arg.x)
    /\ UNCHANGED <<runVars, storeVars, arg>>

NextFormat == FormatDuration \/ FormatDistance

SpecFormat == InitFormat /\ [][NextFormat]_vars

\* C40: formatDuration renders a minutes value below 60 for every whole
\* number of seconds, a duration of an hour or more being shown in the hours
\* form with a minutes part between 0 and 59; formatDistance renders a metres
\* value below 1000 for every distance.
C40_MinutesAndMetresInRange ==
    res # NotFormatted =>
        /\ arg.fn = "formatDuration" =>
              /\ res.unit \in {"min", "hr min"} => res.value \in 0..59
              /\ arg.x >= 3600 => res.unit = "hr min"
        /\ arg.fn = "formatDistance" =>
              (res.unit = "m" => res.value < 1000)

============================================================================
